---- MODULE Spec2Model ----
(***************************************************************************)
(* A model of the lockbox storage engine (TFMV/lockbox): the .lbx file     *)
(* layout (pkg/format), the metadata trailer (pkg/metadata), the hybrid    *)
(* block cipher (pkg/crypto) and the Lockbox handle (pkg/lockbox).         *)
(*                                                                         *)
(* The file is a sequence of cells, one cell per byte.  A cell is a record *)
(* [k, v, x]: k is the kind of byte, v its content, x = 1 marks a byte     *)
(* whose value was changed on disk behind the program's back.  Header and  *)
(* length-prefix bytes are real little-endian integers (k = "b").  Hashes, *)
(* key derivations and ciphertexts are symbolic terms: SHA-256 and PBKDF2  *)
(* are injective constructors, and AES-GCM opens only under the key, nonce *)
(* and ciphertext that sealed it.  Wall-clock fields (createdAt,           *)
(* modifiedAt, timestamp) are not modelled.                                *)
(***************************************************************************)
EXTENDS Integers, Sequences, FiniteSets, TLC

VARIABLES
    disk,       \* the bytes of the file at the path; <<>> when there is no file
    hst,        \* the Lockbox handle: "none", "open" or "closed" (os.File closed)
    pos,        \* the seek cursor of the handle's os.File
    metadata,   \* lbf.metadata: schema, encryption params, audit trail, BlockInfo
    writer,     \* lb.writer: the cached format.Writer (or nil)
    reader,     \* lb.reader: the cached format.Reader (or nil)
    last,       \* the most recent call and what it returned
    createPw,   \* history: the password given to Create
    written,    \* history: the batches of the successful writes, with the key password
    trailerAt,  \* history: offset at which the most recent trailer was written
    persisted,  \* history: lbf.metadata as it was at the most recent trailer rewrite
    repairs,    \* history: the number of repair calls
    failures,   \* history: the number of writes that failed after touching the file
    run         \* the write or read call whose column workers are being followed

vars == <<disk, hst, pos, metadata, writer, reader, last,
          createPw, written, trailerAt, persisted, repairs, failures, run>>

----------------------------------------------------------------------------
(* Bounds of the model *)

MaxWrites == 2      \* successful writes per file
MaxRows == 2        \* rows of a batch
MaxTamper == 1      \* bytes that differ from what the program wrote, at any time
MaxRepairs == 2     \* repairs per file
MaxTrailers == 4    \* trailers in a file: one of create, one per write, one per repair
MaxReads == 1       \* read entries of the access log
MaxPartial == 1      \* bytes a failing file.Write has written
MaxFailures == 1     \* failed writes per file that touched the file or the metadata
MaxCpu == 2          \* processors of the machine (runtime.NumCPU)
MaxSeed == 1        \* distinct contents of a batch of a given shape
MaxRand == 0        \* distinct draws of the random source, less one
PointLen == 1       \* cells of an encoded group point (32 bytes in crypto.go)
NonceLen == 1       \* cells of a GCM nonce (12 bytes in crypto.go)
TagLen == 1         \* cells of a GCM tag (16 bytes)

Passwords == {"secret", "wrong"}
CreatePasswords == {"secret"}
Schemas == { <<"id">>, <<"id", "name">> }
UnknownColumn == "bogus"
WorkerSchema == <<"id", "name">>
Creator == "test"
Salts == {"salt"}

Min(S) == CHOOSE m \in S : \A n \in S : m <= n
Max2(a, b) == IF a >= b THEN a ELSE b
Range(s) == { s[i] : i \in 1..Len(s) }

\* The values of a sequence of [v |-> ...] cells
Values(s) == [i \in 1..Len(s) |-> s[i].v]

\* The index of the first occurrence of e in s, 0 when e is absent
IndexOf(s, e) == IF e \in Range(s) THEN Min({ i \in 1..Len(s) : s[i] = e }) ELSE 0

----------------------------------------------------------------------------
(* Bytes *)

Cell(kind, v) == [k |-> kind, v |-> v, x |-> 0]
Byte(n) == Cell("b", n)

\* binary.Write(..., binary.LittleEndian, n) for an unsigned integer of w bytes
Pow256(i) == IF i = 0 THEN 1 ELSE IF i = 1 THEN 256 ELSE IF i = 2 THEN 65536 ELSE 16777216
LittleEndian(n, w) ==
    [i \in 1..w |-> IF i <= 4 THEN Byte((n \div Pow256(i - 1)) % 256) ELSE Byte(0)]

\* binary.Read(..., binary.LittleEndian, &n); a byte that is no integer byte reads as 255
ByteVal(c) == IF c.k = "b" /\ c.x = 0 THEN c.v ELSE 255
FromLittleEndian(cells) ==
    LET n == Len(cells)
        Part(i) == IF i <= n /\ i <= 4 THEN ByteVal(cells[i]) * Pow256(i - 1) ELSE 0
    IN Part(1) + Part(2) + Part(3) + Part(4)

\* os.File.Write at cursor p (0-based) of a file holding data
WriteAtCursor(data, p, bytes) ==
    [i \in 1..Max2(Len(data), p + Len(bytes)) |->
        IF i > p /\ i <= p + Len(bytes) THEN bytes[i - p]
        ELSE IF i <= Len(data) THEN data[i] ELSE Byte(0)]

\* os.File.ReadAt(buf[:n], off): the bytes, or an error when the file is closed or short
ReadAt(data, closed, off, n) ==
    IF closed \/ off + n > Len(data)
    THEN [err |-> TRUE, bytes |-> <<>>]
    ELSE [err |-> FALSE, bytes |-> SubSeq(data, off + 1, off + n)]

\* sha256.Sum256
Sha256(bytes) == <<"sha256", bytes>>

\* bytes.Equal on two digests: the hashed bytes are the same, cell by cell
\* (cells of different kinds differ whatever they hold)
SameCells(a, b) ==
    /\ Len(a) = Len(b)
    /\ \A i \in 1..Len(a) : a[i].k = b[i].k /\ a[i].x = b[i].x /\ a[i].v = b[i].v
DigestEqual(d, e) == SameCells(d[2], e[2])

----------------------------------------------------------------------------
(* pkg/crypto *)

\* DeriveKey with a key that does not depend on the password
DeriveKeySaltOnly(password, salt) ==
    [Data |-> <<"pbkdf2", "", salt>>,
     Salt |-> salt,
     KyberSecretKey |-> <<"scalar", <<"pbkdf2", "", salt>> >>]

\* pbkdf2.Key(password, salt, ...) and the scalar set from the key bytes
DeriveKey(password, salt) ==
    [Data |-> <<"pbkdf2", password, salt>>,
     Salt |-> salt,
     KyberSecretKey |-> <<"scalar", <<"pbkdf2", password, salt>> >>]

\* Suite.Point().Mul(secret, nil): the public point of a scalar
PublicPoint(secret) == <<"mul", secret, "G">>

\* crypto.NewKey with the salt and the scalar it drew, and the public point
NewKey(password, salt, secret) ==
    [Data |-> <<"pbkdf2", password, salt>>,
     Salt |-> salt,
     KyberSecretKey |-> secret,
     KyberPublicKey |-> PublicPoint(secret)]

\* The key crypto.DeriveKey returns, with its public point
DerivedKey(password, salt) ==
    LET k == DeriveKey(password, salt)
    IN [Data |-> k.Data, Salt |-> k.Salt, KyberSecretKey |-> k.KyberSecretKey,
        KyberPublicKey |-> PublicPoint(k.KyberSecretKey)]

DeriveColumnKey(masterKey, columnName, salt) == <<"pbkdf2", <<masterKey, columnName>>, salt>>

\* The per-block working key: SHA-256(column key || secret * ephemeralPublic)
HybridKey(ce, eph) == <<"sha256", ce.key, <<"mul", ce.KyberSecretKey, eph>> >>

\* ColumnEncryptor.Encrypt with the ephemeral scalar and the nonce it drew
Encrypt(ce, plaintext, eph, nonce) ==
    LET K == HybridKey(ce, eph)
    IN [i \in 1..PointLen |-> Cell("point", <<eph, i>>)]
       \o [i \in 1..NonceLen |-> Cell("nonce", <<nonce, i>>)]
       \o [i \in 1..Len(plaintext) |-> Cell("gcm", <<K, nonce, i, plaintext[i]>>)]
       \o [i \in 1..TagLen |-> Cell("tag", <<K, nonce, plaintext, i>>)]

\* ColumnEncryptor.Decrypt: the plaintext, or an error
Decrypt(ce, ciphertext) ==
    IF Len(ciphertext) < PointLen + NonceLen
    THEN [err |-> "short", plaintext |-> <<>>]
    ELSE
      LET pub == SubSeq(ciphertext, 1, PointLen)
          non == SubSeq(ciphertext, PointLen + 1, PointLen + NonceLen)
          rest == SubSeq(ciphertext, PointLen + NonceLen + 1, Len(ciphertext))
          n == Len(rest) - TagLen
          pubOk == \A i \in 1..PointLen :
                      pub[i].k = "point" /\ pub[i].x = 0
                      /\ pub[i].v[2] = i /\ pub[i].v[1] = pub[1].v[1]
          nonOk == \A i \in 1..NonceLen :
                      non[i].k = "nonce" /\ non[i].x = 0
                      /\ non[i].v[2] = i /\ non[i].v[1] = non[1].v[1]
      IN IF ~pubOk \/ ~nonOk \/ n < 0
         THEN [err |-> "auth", plaintext |-> <<>>]
         ELSE
           LET K == HybridKey(ce, pub[1].v[1])
               nonce == non[1].v[1]
               body == SubSeq(rest, 1, n)
               tag == SubSeq(rest, n + 1, Len(rest))
               bodyOk == \A i \in 1..n :
                            body[i].k = "gcm" /\ body[i].x = 0
                            /\ body[i].v[1] = K /\ body[i].v[2] = nonce /\ body[i].v[3] = i
               pt == [i \in 1..n |-> body[i].v[4]]
               tagOk == \A i \in 1..TagLen :
                            tag[i].k = "tag" /\ tag[i].x = 0
                            /\ tag[i].v = <<K, nonce, pt, i>>
           IN IF bodyOk /\ tagOk
              THEN [err |-> "none", plaintext |-> pt]
              ELSE [err |-> "auth", plaintext |-> <<>>]

----------------------------------------------------------------------------
(* The columnar IPC stream of a one-column record: a schema message, a     *)
(* record-batch message with the row count, the values, end of stream.     *)

IpcWrite(name, vals) ==
    <<Cell("ipc_schema", name), Cell("ipc_batch", Len(vals))>>
    \o [i \in 1..Len(vals) |-> Cell("ipc_val", <<i, vals[i]>>)]
    \o <<Cell("ipc_eos", 0)>>

\* ipc.NewReader + reader.Read: the column, or an error
IpcRead(bytes) ==
    LET n == Len(bytes) - 3
        ok == /\ n >= 0
              /\ bytes[1].k = "ipc_schema"
              /\ bytes[2].k = "ipc_batch" /\ bytes[2].v = n
              /\ \A i \in 1..n : bytes[2 + i].k = "ipc_val" /\ bytes[2 + i].v[1] = i
              /\ bytes[Len(bytes)].k = "ipc_eos"
    IN IF ok
       THEN [ok |-> TRUE, name |-> bytes[1].v, vals |-> [i \in 1..n |-> bytes[2 + i].v[2]]]
       ELSE [ok |-> FALSE, name |-> "", vals |-> <<>>]

----------------------------------------------------------------------------
(* pkg/metadata *)

NoErr == [kind |-> "none", col |-> ""]
Err(kind, col) == [kind |-> kind, col |-> col]

\* metadata.NewMetadata: empty block directory, empty access log
NewMetadata(schema, masterSalt, createdBy) ==
    [Schema |-> schema, MasterSalt |-> masterSalt, CreatedBy |-> createdBy,
     AccessLog |-> <<>>, BlockInfo |-> <<>>]

\* AddBlockInfo putting the new entry first
AddBlockInfoFirst(m, columnName, offset, length, rowCount, checksum) ==
    [m EXCEPT !.BlockInfo = <<[ColumnName |-> columnName, Offset |-> offset, Length |-> length,
                               RowCount |-> rowCount, Checksum |-> checksum]>> \o @]

\* Metadata.AddBlockInfo
AddBlockInfo(m, columnName, offset, length, rowCount, checksum) ==
    [m EXCEPT !.BlockInfo = Append(@,
        [ColumnName |-> columnName, Offset |-> offset, Length |-> length,
         RowCount |-> rowCount, Checksum |-> checksum])]

\* LogAccess that keeps only the newest entry
LogAccessLatest(m, action, details) ==
    [m EXCEPT !.AccessLog = <<[Action |-> action, Details |-> details]>>]

\* Metadata.LogAccess
LogAccess(m, action, details) ==
    [m EXCEPT !.AccessLog = Append(@, [Action |-> action, Details |-> details])]

\* Lockbox.Info: the counts it reports
Info(m) == [BlockCount |-> Len(m.BlockInfo), AccessCount |-> Len(m.AccessLog)]

\* Metadata.Serialize: the JSON document, one cell per element, in field order
\* (header, schemaBytes, encryption, auditTrail with its accessLog, blockInfo)
Serialize(m) ==
    <<Cell("json_header", 0), Cell("json_schemaBytes", m.Schema),
      Cell("json_encryption", m.MasterSalt), Cell("json_auditTrail", m.CreatedBy)>>
    \o [i \in 1..Len(m.AccessLog) |-> Cell("json_accessLog", m.AccessLog[i])]
    \o [i \in 1..Len(m.BlockInfo) |-> Cell("json_blockInfo", m.BlockInfo[i])]

\* metadata.Deserialize: the metadata, or an error when the bytes are no such document
Deserialize(bytes) ==
    LET n == Len(bytes)
        IsLog(c) == c.k = "json_accessLog"
        IsBlock(c) == c.k = "json_blockInfo"
        ok == /\ n >= 4
              /\ \A i \in 1..n : bytes[i].x = 0
              /\ bytes[1].k = "json_header" /\ bytes[2].k = "json_schemaBytes"
              /\ bytes[3].k = "json_encryption" /\ bytes[4].k = "json_auditTrail"
              /\ \A i \in 5..n : IsLog(bytes[i]) \/ IsBlock(bytes[i])
              /\ \A i \in 5..n : \A j \in 5..n :
                    (IsBlock(bytes[i]) /\ IsLog(bytes[j])) => i > j
    IN IF ok
       THEN [err |-> FALSE,
             meta |-> [Schema |-> bytes[2].v, MasterSalt |-> bytes[3].v,
                       CreatedBy |-> bytes[4].v,
                       AccessLog |-> Values(SelectSeq(bytes, IsLog)),
                       BlockInfo |-> Values(SelectSeq(bytes, IsBlock))]]
       ELSE [err |-> TRUE, meta |-> NewMetadata(<<>>, "", "")]

----------------------------------------------------------------------------
(* pkg/format: file layout *)

FileFormatVersion == 1
MagicBytes == <<Byte(76), Byte(79), Byte(67), Byte(75), Byte(66), Byte(79), Byte(88), Byte(0)>>
MetadataOffsetPos == 20     \* the size of FileHeader: magic, version, flags, reserved
HeaderEnd == MetadataOffsetPos + 8     \* the header with its uint64 metadata_offset slot

\* LockboxFile.writeHeader on a new (empty) file: the file's bytes; the cursor is at their end
writeHeader ==
    MagicBytes \o LittleEndian(FileFormatVersion, 4) \o LittleEndian(0, 4)
    \o LittleEndian(0, 4) \o LittleEndian(0, 8)

\* updateMetadata that appends the trailer and leaves the header's offset slot alone
updateMetadataStaleOffset(data, closed, m) ==
    IF closed
    THEN [err |-> TRUE, data |-> data, metadataPos |-> 0]
    ELSE
      LET metadataBytes == Serialize(m)
      IN [err |-> FALSE,
          data |-> data \o LittleEndian(Len(metadataBytes), 4) \o metadataBytes,
          metadataPos |-> Len(data)]

\* LockboxFile.updateMetadata: append the length-prefixed trailer at the end of the
\* file, store its offset in the header, leave the cursor at the end
updateMetadata(data, closed, m) ==
    IF closed
    THEN [err |-> TRUE, data |-> data, metadataPos |-> 0]
    ELSE
      LET metadataPos == Len(data)
          metadataBytes == Serialize(m)
          appended == data \o LittleEndian(Len(metadataBytes), 4) \o metadataBytes
      IN [err |-> FALSE,
          data |-> WriteAtCursor(appended, MetadataOffsetPos, LittleEndian(metadataPos, 8)),
          metadataPos |-> metadataPos]

\* readHeader without the version check
readHeaderAnyVersion(data) ==
    LET fail(why) == [err |-> why, meta |-> NewMetadata(<<>>, "", ""), pos |-> 0]
    IN IF Len(data) < MetadataOffsetPos THEN fail("short header")
       ELSE IF SubSeq(data, 1, 8) # MagicBytes THEN fail("invalid magic bytes")
       ELSE IF Len(data) < HeaderEnd THEN fail("short header")
       ELSE
         LET metadataOffset == FromLittleEndian(SubSeq(data, MetadataOffsetPos + 1, HeaderEnd))
         IN IF metadataOffset = 0 THEN fail("file has no metadata")
            ELSE IF Len(data) < metadataOffset + 4 THEN fail("failed to read metadata length")
            ELSE
              LET metadataLen ==
                      FromLittleEndian(SubSeq(data, metadataOffset + 1, metadataOffset + 4))
                  end == metadataOffset + 4 + metadataLen
              IN IF Len(data) < end THEN fail("failed to read metadata")
                 ELSE
                   LET d == Deserialize(SubSeq(data, metadataOffset + 5, end))
                   IN IF d.err THEN fail("failed to deserialize metadata")
                      ELSE [err |-> "none", meta |-> d.meta, pos |-> end]

\* LockboxFile.readHeader: the metadata and the cursor after the trailer, or an error
readHeader(data) ==
    LET fail(why) == [err |-> why, meta |-> NewMetadata(<<>>, "", ""), pos |-> 0]
    IN IF Len(data) < MetadataOffsetPos THEN fail("short header")
       ELSE IF SubSeq(data, 1, 8) # MagicBytes THEN fail("invalid magic bytes")
       ELSE IF FromLittleEndian(SubSeq(data, 9, 12)) # FileFormatVersion
            THEN fail("unsupported file version")
       ELSE IF Len(data) < HeaderEnd THEN fail("short header")
       ELSE
         LET metadataOffset == FromLittleEndian(SubSeq(data, MetadataOffsetPos + 1, HeaderEnd))
         IN IF metadataOffset = 0 THEN fail("file has no metadata")
            ELSE IF Len(data) < metadataOffset + 4 THEN fail("failed to read metadata length")
            ELSE
              LET metadataLen ==
                      FromLittleEndian(SubSeq(data, metadataOffset + 1, metadataOffset + 4))
                  end == metadataOffset + 4 + metadataLen
              IN IF Len(data) < end THEN fail("failed to read metadata")
                 ELSE
                   LET d == Deserialize(SubSeq(data, metadataOffset + 5, end))
                   IN IF d.err THEN fail("failed to deserialize metadata")
                      ELSE [err |-> "none", meta |-> d.meta, pos |-> end]

\* The calls of format.Create, writeHeader and updateMetadata whose error is checked
CreateFaults ==
    {"os.Create", "write header", "write placeholder", "seek end", "serialize",
     "write length", "write metadata", "seek offset", "write offset", "seek back"}

\* LockboxFile.writeHeader when the call named by fault fails (a failed write
\* writes nothing): the error and the bytes of the file
writeHeaderFault(fault) ==
    LET header == MagicBytes \o LittleEndian(FileFormatVersion, 4) \o LittleEndian(0, 4)
                  \o LittleEndian(0, 4)
    IN IF fault = "write header" THEN [err |-> TRUE, data |-> <<>>]
       ELSE IF fault = "write placeholder" THEN [err |-> TRUE, data |-> header]
       ELSE [err |-> FALSE, data |-> header \o LittleEndian(0, 8)]

\* LockboxFile.updateMetadata when the call named by fault fails: the error, the
\* bytes of the file and the cursor it leaves
updateMetadataFault(data, p, m, fault) ==
    LET metadataPos == Len(data)
        metadataBytes == Serialize(m)
        withLen == data \o LittleEndian(Len(metadataBytes), 4)
        appended == withLen \o metadataBytes
        patched == WriteAtCursor(appended, MetadataOffsetPos, LittleEndian(metadataPos, 8))
        out(e, d, c) == [err |-> e, data |-> d, pos |-> c, metadataPos |-> metadataPos]
    IN IF fault = "seek end" THEN out(TRUE, data, p)
       ELSE IF fault \in {"serialize", "write length"} THEN out(TRUE, data, Len(data))
       ELSE IF fault = "write metadata" THEN out(TRUE, withLen, Len(withLen))
       ELSE IF fault = "seek offset" THEN out(TRUE, appended, Len(appended))
       ELSE IF fault = "write offset" THEN out(TRUE, appended, MetadataOffsetPos)
       ELSE IF fault = "seek back" THEN out(TRUE, patched, HeaderEnd)
       ELSE out(FALSE, patched, Len(patched))

\* format.Create without the removal of the file when writeHeader or updateMetadata fails
FormatCreateKeepsFile(schema, salt, createdBy, fault) ==
    LET meta == NewMetadata(schema, salt, createdBy)
        h == writeHeaderFault(fault)
        u == updateMetadataFault(h.data, Len(h.data), meta, fault)
    IN IF fault = "os.Create" THEN [err |-> "failed to create file", data |-> <<>>]
       ELSE IF h.err THEN [err |-> "failed to write header", data |-> h.data]
       ELSE IF u.err THEN [err |-> "failed to write initial metadata", data |-> u.data]
       ELSE [err |-> "none", data |-> u.data]

\* format.Create when the call named by fault fails: the error and the bytes of the
\* file left at the path (<<>> when no file is left: file.Close, os.Remove)
FormatCreate(schema, salt, createdBy, fault) ==
    LET meta == NewMetadata(schema, salt, createdBy)
        h == writeHeaderFault(fault)
        u == updateMetadataFault(h.data, Len(h.data), meta, fault)
    IN IF fault = "os.Create" THEN [err |-> "failed to create file", data |-> <<>>]
       ELSE IF h.err THEN [err |-> "failed to write header", data |-> <<>>]
       ELSE IF u.err THEN [err |-> "failed to write initial metadata", data |-> <<>>]
       ELSE [err |-> "none", data |-> u.data]

----------------------------------------------------------------------------
(* pkg/format: writer and reader *)

\* The column encryptors that NewWriter and NewReader build for a password
Encryptors(m, password) ==
    LET masterKey == DeriveKey(password, m.MasterSalt)
    IN [f \in Range(m.Schema) |->
          [key |-> DeriveColumnKey(masterKey.Data, f, m.MasterSalt),
           KyberSecretKey |-> masterKey.KyberSecretKey]]

NilCodec == [nil |-> TRUE, encryptors |-> <<>>, password |-> ""]
NewWriter(m, password) ==
    [nil |-> FALSE, encryptors |-> Encryptors(m, password), password |-> password]
NewReader(m, password) ==
    [nil |-> FALSE, encryptors |-> Encryptors(m, password), password |-> password]

\* A record batch: field names, one array of values per field, the row count
Record(fields, cols, rows) == [fields |-> fields, cols |-> cols, rows |-> rows]
NoRecord == Record(<<>>, <<>>, 0)

\* WriteColumn with the checksum taken over the serialized column, not the ciphertext
WriteColumnPlainChecksum(w, record, idx, rnd) ==
    LET field == record.fields[idx]
        plain == IpcWrite(field, record.cols[idx])
    IN IF field \notin DOMAIN w.encryptors
       THEN [err |-> Err("no encryptor", field), field |-> field, data |-> <<>>,
             checksum |-> Sha256(<<>>)]
       ELSE [err |-> NoErr, field |-> field,
             data |-> Encrypt(w.encryptors[field], plain,
                              <<"eph", rnd, idx>>, <<"nonce", rnd, idx>>),
             checksum |-> Sha256(plain)]

\* Writer.WriteRecord, parallel phase: serialize, encrypt and checksum column idx;
\* rnd is what the column's Encrypt drew (ephemeral scalar and nonce)
WriteColumn(w, record, idx, rnd) ==
    LET field == record.fields[idx]
    IN IF field \notin DOMAIN w.encryptors
       THEN [err |-> Err("no encryptor", field), field |-> field, data |-> <<>>,
             checksum |-> Sha256(<<>>)]
       ELSE
         LET enc == Encrypt(w.encryptors[field], IpcWrite(field, record.cols[idx]),
                            <<"eph", rnd, idx>>, <<"nonce", rnd, idx>>)
         IN [err |-> NoErr, field |-> field, data |-> enc, checksum |-> Sha256(enc)]

\* Writer.WriteRecord, serial phase: append the payloads of results[from..] at the cursor
RECURSIVE AppendBlocks(_, _, _, _, _, _)
AppendBlocks(results, from, data, p, m, rows) ==
    IF from > Len(results)
    THEN [data |-> data, pos |-> p, meta |-> m]
    ELSE
      LET r == results[from]
          blockStart == p
      IN AppendBlocks(results, from + 1,
                      WriteAtCursor(data, p, r.data), p + Len(r.data),
                      AddBlockInfo(m, r.field, blockStart, Len(r.data), rows, r.checksum),
                      rows)

\* Writer.WriteRecord: the error returned and the file, cursor and metadata it leaves
WriteRecord(w, record, data, closed, p, m, rnd) ==
    LET results == [i \in 1..Len(record.fields) |-> WriteColumn(w, record, i, rnd)]
        failing == { i \in 1..Len(results) : results[i].err.kind # "none" }
        same(e) == [err |-> e, data |-> data, pos |-> p, meta |-> m, metadataPos |-> 0]
    IN IF failing # {} THEN same(results[Min(failing)].err)
       ELSE IF closed /\ Len(results) > 0
            THEN same(Err("failed to get block start position", ""))
       ELSE
         LET a == AppendBlocks(results, 1, data, p, m, record.rows)
             logged == LogAccess(a.meta, "write", <<"wrote", record.rows, "rows">>)
             u == updateMetadata(a.data, closed, logged)
         IN IF u.err
            THEN [err |-> Err("failed to update metadata", ""), data |-> a.data,
                  pos |-> a.pos, meta |-> logged, metadataPos |-> 0]
            ELSE [err |-> NoErr, data |-> u.data, pos |-> Len(u.data), meta |-> logged,
                  metadataPos |-> u.metadataPos]

\* A failure met by one write: at is the step that fails ("serialize" or
\* "encrypt" in the worker of column col, "seek" or "write" when the payload of
\* column col is appended, or a step of updateMetadata), part is the number of
\* bytes a failing file.Write has written
Fault(at, col, part) == [at |-> at, col |-> col, part |-> part]
WorkerFaults == {"serialize", "encrypt"}
AppendFaults == {"seek", "write"}
TrailerFaults == {"seek end", "serialize metadata", "write length", "write metadata",
                  "seek offset", "write offset", "seek back"}

\* Writer.WriteRecord, parallel phase, with the failure: serialize, look the
\* encryptor up, encrypt
WriteColumnFault(w, record, idx, rnd, fault) ==
    LET field == record.fields[idx]
        failed(kind) == [err |-> Err(kind, field), field |-> field, data |-> <<>>,
                         checksum |-> Sha256(<<>>)]
    IN IF fault.col = idx /\ fault.at = "serialize" THEN failed("failed to serialize column")
       ELSE IF field \notin DOMAIN w.encryptors THEN failed("no encryptor")
       ELSE IF fault.col = idx /\ fault.at = "encrypt" THEN failed("failed to encrypt column")
       ELSE WriteColumn(w, record, idx, rnd)

\* LastError reports the failing column with the highest index
LastError(results) ==
    results[CHOOSE i \in 1..Len(results) :
               /\ results[i].err.kind # "none"
               /\ \A j \in 1..Len(results) : results[j].err.kind # "none" => j <= i].err

\* Writer.WriteRecord, the scan of the results: the first error by column index
FirstError(results) ==
    results[Min({ i \in 1..Len(results) : results[i].err.kind # "none" })].err

\* Writer.WriteRecord, serial phase with the failure: Seek(0, SeekCurrent), Write,
\* AddBlockInfo for each result in turn; a failing step ends the write
RECURSIVE AppendBlocksFault(_, _, _, _, _, _, _)
AppendBlocksFault(results, from, data, p, m, rows, fault) ==
    IF from > Len(results)
    THEN [err |-> NoErr, data |-> data, pos |-> p, meta |-> m]
    ELSE
      LET r == results[from]
          blockStart == p
          written0 == SubSeq(r.data, 1, Min({fault.part, Len(r.data)}))
      IN IF fault.col = from /\ fault.at = "seek"
         THEN [err |-> Err("failed to get block start position", r.field),
               data |-> data, pos |-> p, meta |-> m]
         ELSE IF fault.col = from /\ fault.at = "write"
         THEN [err |-> Err("failed to write encrypted data", r.field),
               data |-> WriteAtCursor(data, p, written0), pos |-> p + Len(written0),
               meta |-> m]
         ELSE AppendBlocksFault(results, from + 1,
                                WriteAtCursor(data, p, r.data), p + Len(r.data),
                                AddBlockInfo(m, r.field, blockStart, Len(r.data), rows,
                                             r.checksum),
                                rows, fault)

\* Writer.WriteRecord with a failure: the error returned and the file, cursor and
\* metadata it leaves; trailer is TRUE when updateMetadata stored a new offset
WriteRecordFault(w, record, data, p, m, rnd, fault) ==
    LET results == [i \in 1..Len(record.fields) |-> WriteColumnFault(w, record, i, rnd, fault)]
        failing == { i \in 1..Len(results) : results[i].err.kind # "none" }
        a == AppendBlocksFault(results, 1, data, p, m, record.rows, fault)
        logged == LogAccess(a.meta, "write", <<"wrote", record.rows, "rows">>)
        u == updateMetadataFault(a.data, a.pos, logged,
                                 IF fault.at = "serialize metadata" THEN "serialize"
                                 ELSE fault.at)
    IN IF failing # {}
       THEN [err |-> FirstError(results), data |-> data, pos |-> p, meta |-> m,
             metadataPos |-> 0, trailer |-> FALSE]
       ELSE IF a.err # NoErr
       THEN [err |-> a.err, data |-> a.data, pos |-> a.pos, meta |-> a.meta,
             metadataPos |-> 0, trailer |-> FALSE]
       ELSE IF u.err
       THEN [err |-> Err("failed to update metadata", fault.at), data |-> u.data,
             pos |-> u.pos, meta |-> logged, metadataPos |-> u.metadataPos,
             trailer |-> fault.at = "seek back"]
       ELSE [err |-> NoErr, data |-> u.data, pos |-> u.pos, meta |-> logged,
             metadataPos |-> u.metadataPos, trailer |-> TRUE]

\* A column has a block in the directory
HasBlock(m, name) == \E i \in 1..Len(m.BlockInfo) : m.BlockInfo[i].ColumnName = name

\* FirstBlock taking the block the directory lists last for the column
LastBlockOf(m, name) ==
    m.BlockInfo[CHOOSE i \in 1..Len(m.BlockInfo) :
                   /\ m.BlockInfo[i].ColumnName = name
                   /\ \A j \in (i + 1)..Len(m.BlockInfo) : m.BlockInfo[j].ColumnName # name]

\* The first block of the directory for a column (the loop of ReadRecord and ReadColumns)
FirstBlock(m, name) ==
    m.BlockInfo[Min({ i \in 1..Len(m.BlockInfo) : m.BlockInfo[i].ColumnName = name })]

\* The column worker with the checksum verified after the decryption
ReadColumnDecryptFirst(r, f, bi, data, closed) ==
    LET got == ReadAt(data, closed, bi.Offset, bi.Length)
        fail(kind) == [err |-> Err(kind, f), arr |-> <<>>]
    IN IF got.err THEN fail("failed to read encrypted data")
       ELSE IF f \notin DOMAIN r.encryptors THEN fail("no encryptor")
       ELSE
         LET dec == Decrypt(r.encryptors[f], got.bytes)
         IN IF dec.err # "none" THEN fail("failed to decrypt")
            ELSE IF ~DigestEqual(Sha256(got.bytes), bi.Checksum) THEN fail("corrupted data block")
            ELSE
              LET col == IpcRead(dec.plaintext)
              IN IF ~col.ok THEN fail("failed to read record")
                 ELSE [err |-> NoErr, arr |-> col.vals]

\* The column worker of ReadRecord and ReadColumns: read, verify, decrypt, deserialize
ReadColumn(r, f, bi, data, closed) ==
    LET got == ReadAt(data, closed, bi.Offset, bi.Length)
        fail(kind) == [err |-> Err(kind, f), arr |-> <<>>]
    IN IF got.err THEN fail("failed to read encrypted data")
       ELSE IF ~DigestEqual(Sha256(got.bytes), bi.Checksum) THEN fail("corrupted data block")
       ELSE IF f \notin DOMAIN r.encryptors THEN fail("no encryptor")
       ELSE
         LET dec == Decrypt(r.encryptors[f], got.bytes)
         IN IF dec.err # "none" THEN fail("failed to decrypt")
            ELSE
              LET col == IpcRead(dec.plaintext)
              IN IF ~col.ok THEN fail("failed to read record")
                 ELSE [err |-> NoErr, arr |-> col.vals]

\* ReadFields with the missing-block error naming the first selected field, not the
\* field whose block is missing
ReadFieldsNamesFirst(r, fields, data, closed, m) ==
    LET missing == { i \in 1..Len(fields) : ~HasBlock(m, fields[i]) }
        fail(e) == [err |-> e, ok |-> FALSE, record |-> NoRecord]
    IN IF missing # {} THEN fail(Err("no block info", fields[1]))
       ELSE
         LET results == [i \in 1..Len(fields) |->
                            ReadColumn(r, fields[i], FirstBlock(m, fields[i]), data, closed)]
             failing == { i \in 1..Len(fields) : results[i].err.kind # "none" }
             arrays == [i \in 1..Len(fields) |-> results[i].arr]
             rows == IF Len(arrays) = 0 THEN 0 ELSE Len(arrays[1])
         IN IF failing # {} THEN fail(results[Min(failing)].err)
            ELSE IF \E i \in 1..Len(arrays) : Len(arrays[i]) # rows
                 THEN fail(Err("panic", fields[1]))
            ELSE [err |-> NoErr, ok |-> TRUE, record |-> Record(fields, arrays, rows)]

\* The tail shared by ReadRecord and ReadColumns: locate the first block of each
\* selected field, run the workers, return the first error by index or the batch.
\* array.NewRecord(schema, arrays, -1) takes the row count of the first array and
\* panics when another array has a different length.
ReadFields(r, fields, data, closed, m) ==
    LET missing == { i \in 1..Len(fields) : ~HasBlock(m, fields[i]) }
        fail(e) == [err |-> e, ok |-> FALSE, record |-> NoRecord]
    IN IF missing # {} THEN fail(Err("no block info", fields[Min(missing)]))
       ELSE
         LET results == [i \in 1..Len(fields) |->
                            ReadColumn(r, fields[i], FirstBlock(m, fields[i]), data, closed)]
             failing == { i \in 1..Len(fields) : results[i].err.kind # "none" }
             arrays == [i \in 1..Len(fields) |-> results[i].arr]
             rows == IF Len(arrays) = 0 THEN 0 ELSE Len(arrays[1])
         IN IF failing # {} THEN fail(results[Min(failing)].err)
            ELSE IF \E i \in 1..Len(arrays) : Len(arrays[i]) # rows
                 THEN fail(Err("panic", fields[1]))
            ELSE [err |-> NoErr, ok |-> TRUE, record |-> Record(fields, arrays, rows)]

\* Reader.ReadRecord: every field of the schema
ReadRecord(r, data, closed, m) == ReadFields(r, m.Schema, data, closed, m)

\* Reader.ReadColumns: the fields of the schema that are in columns (all when
\* columns is empty), in schema order
SelectedFields(schema, columns) ==
    LET Keep(f) == columns = <<>> \/ f \in Range(columns)
    IN SelectSeq(schema, Keep)
ReadColumns(r, columns, data, closed, m) ==
    ReadFields(r, SelectedFields(m.Schema, columns), data, closed, m)

\* The check of one block in ValidateBlocks and Repair: positional read, SHA-256
BlockIntact(bi, data, closed) ==
    LET got == ReadAt(data, closed, bi.Offset, bi.Length)
    IN ~got.err /\ DigestEqual(Sha256(got.bytes), bi.Checksum)

\* ValidateBlocks that stops after the first block of the directory
ValidateFirstBlock(data, closed, m) ==
    IF m.BlockInfo = <<>> \/ BlockIntact(m.BlockInfo[1], data, closed)
    THEN NoErr
    ELSE Err("corrupted data block", m.BlockInfo[1].ColumnName)

\* LockboxFile.ValidateBlocks: the first block, in directory order, that cannot be
\* read or whose bytes do not hash to its checksum
ValidateBlocks(data, closed, m) ==
    LET bad == { i \in 1..Len(m.BlockInfo) : ~BlockIntact(m.BlockInfo[i], data, closed) }
    IN IF bad = {} THEN NoErr
       ELSE LET bi == m.BlockInfo[Min(bad)]
            IN IF ReadAt(data, closed, bi.Offset, bi.Length).err
               THEN Err("failed to read block", bi.ColumnName)
               ELSE Err("corrupted data block", bi.ColumnName)

\* ValidBlocks that keeps every block it can read, whatever its checksum
ValidBlocksReadable(data, closed, m) ==
    LET Readable(bi) == ~ReadAt(data, closed, bi.Offset, bi.Length).err
    IN SelectSeq(m.BlockInfo, Readable)

\* The validBlocks of LockboxFile.Repair: the blocks that are intact
ValidBlocks(data, closed, m) ==
    LET Intact(bi) == BlockIntact(bi, data, closed)
    IN SelectSeq(m.BlockInfo, Intact)

\* Repair that rewrites the trailer only when it dropped a block
RepairSkipsTrailer(data, closed, m) ==
    LET kept == [m EXCEPT !.BlockInfo = ValidBlocks(data, closed, m)]
        u == updateMetadata(data, closed, kept)
    IN IF kept = m /\ ~closed
       THEN [err |-> NoErr, data |-> data, meta |-> m,
             metadataPos |-> FromLittleEndian(SubSeq(data, MetadataOffsetPos + 1, HeaderEnd))]
       ELSE [err |-> IF u.err THEN Err("failed to seek to end of file", "") ELSE NoErr,
             data |-> u.data, meta |-> kept, metadataPos |-> u.metadataPos]

\* LockboxFile.Repair: keep the blocks that are intact, rewrite the trailer
Repair(data, closed, m) ==
    LET kept == [m EXCEPT !.BlockInfo = ValidBlocks(data, closed, m)]
        u == updateMetadata(data, closed, kept)
    IN [err |-> IF u.err THEN Err("failed to seek to end of file", "") ELSE NoErr,
        data |-> u.data, meta |-> kept, metadataPos |-> u.metadataPos]

----------------------------------------------------------------------------
(* pkg/lockbox: the query language *)

(* A query is the sequence of its whitespace-separated words (strings.Fields). *)
(* A word is a record [k, s, c, n]: k is "word" (a keyword, a name, a bare      *)
(* literal), "quoted" (a literal in quotes), "num" (a number), "sym" (an        *)
(* operator or the star); s is its text in lower case, c the case of its letters *)
(* ("lower", "upper", or "none" when it has no letters), n the value of a       *)
(* number.  The items of the select list are one word each.                     *)
Word(str, case) == [k |-> "word", s |-> str, c |-> case, n |-> 0]
Quoted(str, case) == [k |-> "quoted", s |-> str, c |-> case, n |-> 0]
Num(n) == [k |-> "num", s |-> "#", c |-> "none", n |-> n]
Sym(str) == [k |-> "sym", s |-> str, c |-> "none", n |-> 0]

\* strings.ToUpper and strings.ToLower on a word
ToUpper(w) == IF w.c = "none" THEN w ELSE [w EXCEPT !.c = "upper"]
ToLower(w) == IF w.c = "none" THEN w ELSE [w EXCEPT !.c = "lower"]

\* A keyword as parseQuery compares it: the upper-case word
Kw(str) == Word(str, "upper")

\* The values of a column: a null, an int64 or float64, a string with its case
Null == [t |-> "null", n |-> 0, s |-> "", c |-> "none"]
Number(n) == [t |-> "num", n |-> n, s |-> "", c |-> "none"]
Str(str, case) == [t |-> "str", n |-> 0, s |-> str, c |-> case]

\* strings.Trim(val, "'\"") of a literal: its text without the quotes
Trim(w) == Str(w.s, w.c)

\* parsedQuery
ParsedQuery(sel, wc, wo, wv, oc, od, lim) ==
    [SelectCols |-> sel, WhereCol |-> wc, WhereOp |-> wo, WhereVal |-> wv,
     OrderCol |-> oc, OrderDesc |-> od, Limit |-> lim]
NoToken == Sym("")

\* parseQuery, the clause loop from word i on (1-based); err is "none" or the error
RECURSIVE ParseClauses(_, _, _)
ParseClauses(parts, i, pq) ==
    LET n == Len(parts)
    IN IF i > n THEN [err |-> "none", pq |-> pq]
       ELSE IF parts[i] = Kw("where")
       THEN IF i + 3 > n THEN [err |-> "invalid WHERE clause", pq |-> pq]
            ELSE ParseClauses(parts, i + 4,
                    [pq EXCEPT !.WhereCol = ToLower(parts[i + 1]).s,
                               !.WhereOp = parts[i + 2],
                               !.WhereVal = parts[i + 3]])
       ELSE IF parts[i] = Kw("order")
       THEN IF i + 3 > n \/ parts[i + 1] # Kw("by")
            THEN [err |-> "invalid ORDER BY clause", pq |-> pq]
            ELSE IF parts[i + 3] \in {Kw("desc"), Kw("asc")}
                 THEN ParseClauses(parts, i + 4,
                         [pq EXCEPT !.OrderCol = ToLower(parts[i + 2]).s,
                                    !.OrderDesc = (parts[i + 3] = Kw("desc"))])
                 ELSE ParseClauses(parts, i + 3,
                         [pq EXCEPT !.OrderCol = ToLower(parts[i + 2]).s])
       ELSE IF parts[i] = Kw("limit")
       THEN IF i + 1 > n THEN [err |-> "invalid LIMIT clause", pq |-> pq]
            ELSE IF parts[i + 1].k # "num" THEN [err |-> "invalid LIMIT value", pq |-> pq]
            ELSE ParseClauses(parts, i + 2, [pq EXCEPT !.Limit = parts[i + 1].n])
       ELSE ParseClauses(parts, i + 1, pq)

\* parseQuery: upper-case the query, find SELECT and FROM, lower-case the names
parseQuery(q) ==
    LET parts == [i \in 1..Len(q) |-> ToUpper(q[i])]
        froms == { i \in 1..Len(parts) : parts[i] = Kw("from") }
        fromIdx == IF froms = {} THEN 0 ELSE Min(froms)
        empty == ParsedQuery(<<>>, "", NoToken, NoToken, "", FALSE, -1)
        NotStar(w) == w # Sym("*")
        cols == SelectSeq(SubSeq(parts, 2, fromIdx - 1), NotStar)
    IN IF Len(parts) < 4 \/ parts[1] # Kw("select")
       THEN [err |-> "invalid query", pq |-> empty]
       ELSE IF fromIdx = 0 \/ fromIdx = 2 THEN [err |-> "invalid query", pq |-> empty]
       ELSE ParseClauses(parts, fromIdx + 2,
               [empty EXCEPT !.SelectCols = [i \in 1..Len(cols) |-> ToLower(cols[i]).s]])

\* The string columns of the schemas; every other column holds numbers
StringFields == {"name"}

\* c.Value(row) of a null slot: the zero value of the column's type
ZeroValue(name) == IF name \in StringFields THEN Str("", "none") ELSE Number(0)

\* getValue: the value of a row, the string "NULL" for a null
getValue(col, row) == IF col[row] = Null THEN Str("null", "upper") ELSE col[row]

\* Go's byte order on strings: upper-case letters sort before lower-case ones
Alphabet == <<"", "bob", "null">>
StrRank(v) == (IF v.c = "lower" THEN Len(Alphabet) ELSE 0) + IndexOf(Alphabet, v.s)

\* less: a type switch on a, then a type assertion on b that panics on a mismatch
lessPanics(a, b) == a.t # b.t
less(a, b) == IF a.t = "num" THEN a.n < b.n ELSE StrRank(a) < StrRank(b)

\* matchValue: numbers against the parsed literal, strings for equality only
matchValue(col, row, op, val) ==
    LET cv == getValue(col, row)
        ferr == val.k # "num"
        fVal == val.n
    IN IF cv.t = "num"
       THEN /\ ~ferr
            /\ \/ op = Sym(">") /\ cv.n > fVal
               \/ op = Sym("<") /\ cv.n < fVal
               \/ op = Sym("=") /\ cv.n = fVal
               \/ op = Sym(">=") /\ cv.n >= fVal
               \/ op = Sym("<=") /\ cv.n <= fVal
       ELSE op = Sym("=") /\ cv = Trim(val)

\* The column of a batch by name, as rec.Column(rec.Schema().FieldIndices(name)[0])
HasField(rec, name) == name \in Range(rec.fields)
Column(rec, name) == rec.cols[IndexOf(rec.fields, name)]

\* sort.Slice (not stable): the orders it may leave the rows in
Orderings(idx) ==
    { p \in [1..Len(idx) -> Range(idx)] : \A i, j \in 1..Len(idx) : p[i] = p[j] => i = j }
SortOrders(idx, col, desc) ==
    LET before(a, b) == IF desc THEN less(getValue(col, b), getValue(col, a))
                                ELSE less(getValue(col, a), getValue(col, b))
    IN { p \in Orderings(idx) :
           \A i, j \in 1..Len(p) : i < j => ~before(p[j], p[i]) }
SortPanics(idx, col) ==
    \E i, j \in 1..Len(idx) : lessPanics(getValue(col, idx[i]), getValue(col, idx[j]))

\* applyQuery: filter, sort, limit, then build the columns of the select list.
\* The set of its possible outcomes; a panic is the outcome Err("panic", column).
applyQuery(rec, pq) ==
    LET all == [i \in 1..rec.rows |-> i]
        Keep(i) == matchValue(Column(rec, pq.WhereCol), i, pq.WhereOp, pq.WhereVal)
        kept == IF pq.WhereCol # "" THEN SelectSeq(all, Keep) ELSE all
        Cut(idx) == IF pq.Limit >= 0 /\ pq.Limit < Len(idx)
                    THEN SubSeq(idx, 1, pq.Limit) ELSE idx
        names == IF Len(pq.SelectCols) = 0 THEN rec.fields ELSE pq.SelectCols
        missing == { i \in 1..Len(names) : ~HasField(rec, names[i]) }
        Out(v, name) == IF v = Null THEN ZeroValue(name) ELSE v
        Build(idx) ==
            [err |-> NoErr, ok |-> TRUE,
             record |-> Record(names,
                               [c \in 1..Len(names) |->
                                   [r \in 1..Len(idx) |->
                                       Out(Column(rec, names[c])[idx[r]], names[c])]],
                               Len(idx))]
        Panic(name) == [err |-> Err("panic", name), ok |-> FALSE, record |-> NoRecord]
    IN IF pq.WhereCol # "" /\ ~HasField(rec, pq.WhereCol) THEN {Panic(pq.WhereCol)}
       ELSE IF pq.OrderCol # "" /\ ~HasField(rec, pq.OrderCol) THEN {Panic(pq.OrderCol)}
       ELSE IF pq.OrderCol # "" /\ SortPanics(kept, Column(rec, pq.OrderCol))
       THEN {Panic(pq.OrderCol)}
       ELSE IF missing # {} THEN {Panic(names[Min(missing)])}
       ELSE LET orders == IF pq.OrderCol # ""
                          THEN SortOrders(kept, Column(rec, pq.OrderCol), pq.OrderDesc)
                          ELSE {kept}
            IN { Build(Cut(idx)) : idx \in orders }

\* contains, and the columns Query asks the reader for
AppendNew(list, v) == IF v = "" \/ v \in Range(list) THEN list ELSE Append(list, v)
Required(pq) == AppendNew(AppendNew(pq.SelectCols, pq.WhereCol), pq.OrderCol)

\* Lockbox.Query: parse, read the required columns with a new reader, apply
Query(q, password, data, closed, m) ==
    LET parsed == parseQuery(q)
        res == ReadColumns(NewReader(m, password), Required(parsed.pq), data, closed, m)
        Fail(err) == [err |-> err, ok |-> FALSE, record |-> NoRecord]
    IN IF password = "" THEN {Fail(Err("password is required for querying", ""))}
       ELSE IF parsed.err # "none" THEN {Fail(Err(parsed.err, ""))}
       ELSE IF ~res.ok THEN {Fail(res.err)}
       ELSE applyQuery(res.record, parsed.pq)

----------------------------------------------------------------------------
(* Inputs *)

\* The batches conforming to a schema: rows 1..MaxRows, contents picked by a seed
Value(seed, col, row) == seed * 100 + col * 10 + row
Batches(schema) ==
    { Record(schema,
             [c \in 1..Len(schema) |-> [r \in 1..rows |-> Value(seed, c, r)]],
             rows) : rows \in 1..MaxRows, seed \in 1..MaxSeed }

\* The column lists given to a read: none, one field, the fields in reverse
\* schema order, a name that is no field, a field and a name that is no field
\* Batches with a column the file's schema does not have, before or after "id"
ForeignBatches == Batches(<<UnknownColumn, "id">>) \cup Batches(<<"id", UnknownColumn>>)

\* The batches of the writes that meet a failure: one row
FailingBatches(schema) == { b \in Batches(schema) \cup ForeignBatches : b.rows = 1 }

\* The batches given to a write whose pool is followed: of no column, of one
\* column, of the columns of the schema, of a column that is no field
PoolBatches(schema) ==
    Batches(schema) \cup ForeignBatches
    \cup { Record(<<>>, <<>>, 0) }
    \cup { Record(<<b.fields[1]>>, <<b.cols[1]>>, b.rows) :
              b \in { c \in Batches(schema) \cup ForeignBatches : c.fields # <<>> } }

\* The failures of a write of a batch: none (a "none" step never fails), one
\* worker, one append (no byte or one byte of the payload written), one step of
\* the trailer rewrite
NoFault == Fault("none", 0, 0)
WriteFaults(record) ==
    {NoFault}
    \cup { Fault(at, col, 0) : at \in WorkerFaults \cup {"seek"}, col \in 1..Len(record.fields) }
    \cup { Fault("write", col, part) : col \in 1..Len(record.fields), part \in 0..MaxPartial }
    \cup { Fault(at, 0, 0) : at \in TrailerFaults }

\* The table the queries run on: an id, a string column and a numeric column
\* with nulls, strings in both cases and two rows of equal score
QuerySchema == <<"id", "name", "score">>
QueryRows == { <<Str("bob", "lower"), Number(10)>>, <<Str("bob", "upper"), Number(30)>>,
               <<Null, Number(30)>>, <<Str("bob", "upper"), Null>> }
QueryBatches ==
    UNION { { Record(QuerySchema,
                     << [r \in 1..rows |-> Number(r)],
                        [r \in 1..rows |-> rs[r][1]],
                        [r \in 1..rows |-> rs[r][2]] >>,
                     rows) : rs \in [1..rows -> QueryRows] } : rows \in 1..MaxRows }

\* The queries: SELECT list FROM data [WHERE c op v] [ORDER BY c [ASC|DESC]]
\* [LIMIT n] [GROUP BY c], written in lower case
Name(str) == Word(str, "lower")
SelectLists == { <<Sym("*")>>, <<Name("id")>>, <<Name("name")>>, <<Name("score"), Name("name")>>,
                 <<Name("count(*)"), Name("avg(score)")>> }
Predicates == { <<Name("score"), Sym(">"), Num(20)>>, <<Name("score"), Sym("<="), Num(30)>>,
                <<Name("score"), Sym("="), Num(30)>>, <<Name("score"), Sym("!="), Num(30)>>,
                <<Name("name"), Sym("="), Quoted("bob", "lower")>>,
                <<Name("name"), Sym("="), Quoted("bob", "upper")>>,
                <<Name("name"), Sym("="), Quoted("null", "lower")>> }
Wheres == {<<>>} \cup { <<Name("where")>> \o p : p \in Predicates }
Orders == { <<>>, <<Name("order"), Name("by"), Name("score")>>,
            <<Name("order"), Name("by"), Name("score"), Name("desc")>>,
            <<Name("order"), Name("by"), Name("name"), Name("asc")>> }
Limits == { <<>>, <<Name("limit"), Num(1)>> }
Tails == { <<>>, <<Name("group"), Name("by"), Name("name")>> }
SelectFrom(sel, w, o, l, t) ==
    <<Name("select")>> \o sel \o <<Name("from"), Name("data")>> \o w \o o \o l \o t
Queries ==
    { SelectFrom(sel, w, o, l, t) :
        sel \in SelectLists, w \in Wheres, o \in Orders, l \in Limits, t \in Tails }

Reverse(s) == [i \in 1..Len(s) |-> s[Len(s) + 1 - i]]
Projections(schema) ==
    {<<>>, Reverse(schema), <<UnknownColumn>>, <<schema[1], UnknownColumn>>}
    \cup { <<f>> : f \in Range(schema) }
ReadOptions(schema) == {<<>>, Reverse(schema)}

Rands == 0..MaxRand

\* The scalars Suite.Scalar().Pick(random.New()) can return in NewKey: any
\* scalar of the group, the one DeriveKey computes among them
Scalars(password, salt) ==
    { <<"scalar", <<"random", r>> >> : r \in Rands }
    \cup { DeriveKey(password, salt).KyberSecretKey }

Result(op, pw, cols, err, ok, record) ==
    [op |-> op, pw |-> pw, cols |-> cols, err |-> err, ok |-> ok, record |-> record]

Closed == hst = "closed"

\* The trailers written to the file so far
Trailers == 1 + Len(written) + repairs

\* The read entries of the access log in memory
ReadsLogged(m) == Cardinality({ i \in 1..Len(m.AccessLog) : m.AccessLog[i].Action = "read" })

\* The offsets (0-based) of the bytes changed on disk behind the program's back
Tampered == { i \in 0..(Len(disk) - 1) : disk[i + 1].x = 1 }
IsPayload(c) == c.k \in {"point", "nonce", "gcm", "tag"}

----------------------------------------------------------------------------
(* Operations *)

\* The column workers of one call of ReadRecord, ReadColumns or WriteRecord.
\* A slot is one entry of results with the goroutine that fills it: pc is "idle"
\* (not started), "running" or "done"; out is what the worker stored; refs is
\* the number of references held on the array in the slot, released the number
\* of Release calls the call made on it.
NoResult == [err |-> NoErr, arr |-> <<>>]
IdleSlot == [pc |-> "idle", out |-> NoResult, refs |-> 0, released |-> 0]

\* A call: the codec it runs on, the fields it handles, runtime.NumCPU(), the
\* number of loop iterations done, the slots, whether the context given to the
\* call has been cancelled (done), the reference count of the batch given to a
\* write (batch) and whether the caller has released it (freed), the number of
\* slots of the semaphore of a write that are taken (sem), and what it returned
Call(kind, codec, fields, cpu, input, rnd) ==
    [kind |-> kind, codec |-> codec, fields |-> fields, cpu |-> cpu, next |-> 0,
     slots |-> [i \in 1..Len(fields) |-> IdleSlot],
     input |-> input, rnd |-> rnd, done |-> FALSE,
     batch |-> 0, freed |-> FALSE, sem |-> 0,
     returned |-> FALSE, err |-> NoErr, record |-> NoRecord]

\* No call is being followed
NoCall == Call("none", NilCodec, <<>>, 0, NoRecord, 0)

\* The machines: runtime.NumCPU()
Cpus == 1..MaxCpu

\* The workers started and not finished
InFlight(c) == { i \in 1..Len(c.slots) : c.slots[i].pc = "running" }

\* What a read does after wg.Wait: on the first error by index release every
\* array of results and return that error; else array.NewRecord retains each
\* array, the loop releases each once, and the batch is returned
Gather(c) ==
    LET n == Len(c.slots)
        failing == { i \in 1..n : c.slots[i].out.err.kind # "none" }
        arrays == [i \in 1..n |-> c.slots[i].out.arr]
        rows == IF n = 0 THEN 0 ELSE Len(arrays[1])
        release(sl) == IF sl.out.arr # <<>>
                       THEN [sl EXCEPT !.refs = @ - 1, !.released = @ + 1]
                       ELSE sl
        retain(sl) == [sl EXCEPT !.refs = @ + 1]
    IN IF failing # {}
       THEN [c EXCEPT !.returned = TRUE, !.err = c.slots[Min(failing)].out.err,
                      !.slots = [i \in 1..n |-> release(c.slots[i])]]
       ELSE IF \E i \in 1..n : Len(arrays[i]) # rows
            THEN [c EXCEPT !.returned = TRUE, !.err = Err("panic", c.fields[1]),
                           !.slots = [i \in 1..n |-> retain(c.slots[i])]]
       ELSE [c EXCEPT !.returned = TRUE,
                      !.record = Record(c.fields, arrays, rows),
                      !.slots = [i \in 1..n |-> release(retain(c.slots[i]))]]

Init ==
    /\ disk = <<>>
    /\ hst = "none"
    /\ pos = 0
    /\ metadata = NewMetadata(<<>>, "", "")
    /\ writer = NilCodec
    /\ reader = NilCodec
    /\ last = Result("init", "", <<>>, NoErr, TRUE, NoRecord)
    /\ createPw = ""
    /\ written = <<>>
    /\ trailerAt = 0
    /\ persisted = NewMetadata(<<>>, "", "")
    /\ repairs = 0
    /\ failures = 0
    /\ run = NoCall

\* lockbox.Create -> format.Create: NewKey draws the salt, NewMetadata, os.Create,
\* writeHeader, updateMetadata
Create(schema, password, salt) ==
    /\ hst = "none"
    /\ LET meta == NewMetadata(schema, salt, Creator)
           u == updateMetadata(writeHeader, FALSE, meta)
       IN /\ disk' = u.data
          /\ pos' = Len(u.data)
          /\ metadata' = meta
          /\ trailerAt' = u.metadataPos
          /\ persisted' = meta
    /\ hst' = "open"
    /\ writer' = NilCodec
    /\ reader' = NilCodec
    /\ createPw' = password
    /\ written' = <<>>
    /\ repairs' = 0
    /\ failures' = 0
    /\ last' = Result("create", password, <<>>, NoErr, TRUE, NoRecord)
    /\ UNCHANGED run

\* lockbox.Create when a call of format.Create fails: no handle is returned
CreateFails(schema, password, salt, fault) ==
    /\ hst = "none"
    /\ LET c == FormatCreate(schema, salt, Creator, fault)
       IN /\ c.err # "none"
          /\ disk' = c.data
          /\ last' = Result("create", password, <<>>, Err(c.err, ""), FALSE, NoRecord)
    /\ UNCHANGED <<failures, run, hst, pos, metadata, writer, reader, createPw, written,
                   trailerAt, persisted, repairs>>

\* lockbox.Open -> format.Open: os.OpenFile, readHeader; DeriveKey never returns nil,
\* so no password is rejected here
Open(password) ==
    /\ hst = "closed"
    /\ LET rh == readHeader(disk)
       IN IF rh.err # "none"
          THEN /\ last' = Result("open", password, <<>>, Err(rh.err, ""), FALSE, NoRecord)
               /\ UNCHANGED <<hst, pos, metadata>>
          ELSE /\ last' = Result("open", password, <<>>, NoErr, TRUE, NoRecord)
               /\ hst' = "open"
               /\ pos' = rh.pos
               /\ metadata' = rh.meta
    /\ writer' = NilCodec
    /\ reader' = NilCodec
    /\ UNCHANGED <<failures, run, disk, createPw, written, trailerAt, persisted, repairs>>

\* Lockbox.Close: drop the cached writer and reader, close the os.File
Close ==
    /\ hst = "open"
    /\ hst' = "closed"
    /\ writer' = NilCodec
    /\ reader' = NilCodec
    /\ last' = Result("close", "", <<>>, NoErr, TRUE, NoRecord)
    /\ UNCHANGED <<failures, run, disk, pos, metadata, createPw, written, trailerAt, persisted, repairs>>

\* Lockbox.Write: the writer is created on the first call and kept; WriteRecord
Write(record, password, rnd) ==
    /\ hst = "open"
    /\ Len(written) < MaxWrites
    /\ Trailers < MaxTrailers
    /\ LET w == IF writer.nil THEN NewWriter(metadata, password) ELSE writer
           res == WriteRecord(w, record, disk, Closed, pos, metadata, rnd)
       IN /\ writer' = w
          /\ disk' = res.data
          /\ pos' = res.pos
          /\ metadata' = res.meta
          /\ last' = Result("write", password, <<>>, res.err, res.err = NoErr, NoRecord)
          /\ IF res.err = NoErr
             THEN /\ written' = Append(written, [record |-> record, password |-> w.password])
                  /\ trailerAt' = res.metadataPos
                  /\ persisted' = res.meta
             ELSE UNCHANGED <<written, trailerAt, persisted>>
    /\ UNCHANGED <<failures, run, hst, reader, createPw, repairs>>

\* Lockbox.Read that logs the access whether or not ReadRecord succeeded
ReadLogsAlways(password, columns) ==
    /\ hst = "open"
    /\ LET r == IF reader.nil THEN NewReader(metadata, password) ELSE reader
           res == ReadRecord(r, disk, Closed, metadata)
       IN /\ ReadsLogged(metadata) < MaxReads
          /\ reader' = r
          /\ metadata' = LogAccess(metadata, "read", <<"read", res.record.rows, "rows">>)
          /\ last' = Result("read", password, columns, res.err, res.ok, res.record)
    /\ UNCHANGED <<failures, run, disk, hst, pos, writer, createPw, written, trailerAt, persisted, repairs>>

\* Lockbox.Read: the reader is created on the first call and kept; the Columns
\* option is not consulted; ReadRecord; a successful read logs the access
Read(password, columns) ==
    /\ hst = "open"
    /\ LET r == IF reader.nil THEN NewReader(metadata, password) ELSE reader
           res == ReadRecord(r, disk, Closed, metadata)
       IN /\ res.ok => ReadsLogged(metadata) < MaxReads
          /\ reader' = r
          /\ metadata' = IF res.ok
                         THEN LogAccess(metadata, "read", <<"read", res.record.rows, "rows">>)
                         ELSE metadata
          /\ last' = Result("read", password, columns, res.err, res.ok, res.record)
    /\ UNCHANGED <<failures, run, disk, hst, pos, writer, createPw, written, trailerAt, persisted, repairs>>

\* Lockbox.Write on a handle that was closed: Close dropped the writer, so NewWriter
\* runs again; the os.File is closed, so Seek and Write fail
WriteOnClosed(record, password, rnd) ==
    /\ hst = "closed"
    /\ Len(metadata.AccessLog) < MaxWrites + MaxReads
    /\ LET w == IF writer.nil THEN NewWriter(metadata, password) ELSE writer
           res == WriteRecord(w, record, disk, TRUE, pos, metadata, rnd)
       IN /\ writer' = w
          /\ disk' = res.data
          /\ pos' = res.pos
          /\ metadata' = res.meta
          /\ last' = Result("write", password, <<>>, res.err, res.err = NoErr, NoRecord)
    /\ UNCHANGED <<failures, run, hst, reader, createPw, written, trailerAt, persisted, repairs>>

\* Lockbox.Read on a handle that was closed: Close dropped the reader, so NewReader
\* runs again; the os.File is closed, so ReadAt fails
ReadOnClosed(password) ==
    /\ hst = "closed"
    /\ LET r == IF reader.nil THEN NewReader(metadata, password) ELSE reader
           res == ReadRecord(r, disk, TRUE, metadata)
       IN /\ res.ok => ReadsLogged(metadata) < MaxReads
          /\ reader' = r
          /\ metadata' = IF res.ok
                         THEN LogAccess(metadata, "read", <<"read", res.record.rows, "rows">>)
                         ELSE metadata
          /\ last' = Result("read", password, <<>>, res.err, res.ok, res.record)
    /\ UNCHANGED <<failures, run, disk, hst, pos, writer, createPw, written, trailerAt, persisted, repairs>>

\* The column read of Lockbox.Query: a new reader for the password, ReadColumns
ReadColumnsCall(password, columns) ==
    /\ hst = "open"
    /\ LET r == NewReader(metadata, password)
           res == ReadColumns(r, columns, disk, Closed, metadata)
       IN /\ res.ok => ReadsLogged(metadata) < MaxReads
          /\ metadata' = IF res.ok
                         THEN LogAccess(metadata, "read", <<"read", res.record.rows, "rows">>)
                         ELSE metadata
          /\ last' = Result("readcolumns", password, columns, res.err, res.ok, res.record)
    /\ UNCHANGED <<failures, run, disk, hst, pos, writer, reader, createPw, written, trailerAt, persisted, repairs>>

\* Lockbox.Write that returns an error: a column without an encryptor or a
\* failure of a worker, of an append or of the trailer rewrite
WriteFails(record, password, rnd, fault) ==
    /\ hst = "open"
    /\ failures < MaxFailures
    /\ LET w == IF writer.nil THEN NewWriter(metadata, password) ELSE writer
           res == WriteRecordFault(w, record, disk, pos, metadata, rnd, fault)
       IN /\ res.err # NoErr
          /\ writer' = w
          /\ disk' = res.data
          /\ pos' = res.pos
          /\ metadata' = res.meta
          /\ last' = Result("write", password, fault, res.err, FALSE, record)
          /\ IF res.trailer
             THEN trailerAt' = res.metadataPos /\ persisted' = res.meta
             ELSE UNCHANGED <<trailerAt, persisted>>
          /\ failures' = IF <<res.data, res.pos, res.meta>> = <<disk, pos, metadata>>
                         THEN failures ELSE failures + 1
    /\ UNCHANGED <<run, hst, reader, createPw, written, repairs>>

\* Lockbox.Query on an open handle
QueryCall(q, password) ==
    /\ hst = "open"
    /\ LET parsed == parseQuery(q)
           rd == ReadColumns(NewReader(metadata, password), Required(parsed.pq),
                             disk, Closed, metadata)
           logged == password # "" /\ parsed.err = "none" /\ rd.ok
       IN /\ logged => ReadsLogged(metadata) < MaxReads
          /\ \E res \in Query(q, password, disk, Closed, metadata) :
                last' = Result("query", password, q, res.err, res.ok, res.record)
          /\ metadata' = IF logged
                         THEN LogAccess(metadata, "read", <<"read", rd.record.rows, "rows">>)
                         ELSE metadata
    /\ UNCHANGED <<failures, run, disk, hst, pos, writer, reader, createPw, written, trailerAt, persisted, repairs>>

\* Lockbox.Validate -> LockboxFile.ValidateBlocks
Validate ==
    /\ hst = "open"
    /\ LET e == ValidateBlocks(disk, Closed, metadata)
       IN last' = Result("validate", "", <<>>, e, e = NoErr, NoRecord)
    /\ UNCHANGED <<failures, run, disk, hst, pos, metadata, writer, reader,
                   createPw, written, trailerAt, persisted, repairs>>

\* Lockbox.Repair -> LockboxFile.Repair
RepairCall ==
    /\ hst = "open"
    /\ repairs < MaxRepairs
    /\ Trailers < MaxTrailers
    /\ repairs' = repairs + 1
    /\ LET res == Repair(disk, Closed, metadata)
       IN /\ disk' = res.data
          /\ metadata' = res.meta
          /\ pos' = IF res.err = NoErr THEN Len(res.data) ELSE pos
          /\ last' = Result("repair", "", <<>>, res.err, res.err = NoErr, NoRecord)
          /\ IF res.err = NoErr
             THEN trailerAt' = res.metadataPos /\ persisted' = res.meta
             ELSE UNCHANGED <<trailerAt, persisted>>
    /\ UNCHANGED <<failures, run, hst, writer, reader, createPw, written>>

\* Lockbox.Read enters ReadRecord: the reader is created on the first call
BeginRead(password, cpu) ==
    /\ hst = "open"
    /\ run = NoCall
    /\ LET r == IF reader.nil THEN NewReader(metadata, password) ELSE reader
       IN /\ reader' = r
          /\ run' = Call("read", r, metadata.Schema, cpu, NoRecord, 0)
    /\ UNCHANGED <<failures, disk, hst, pos, metadata, writer, last, createPw, written,
                   trailerAt, persisted, repairs>>

\* Lockbox.Query enters ReadColumns with a new reader: the blocks of the selected
\* fields are located before any worker starts, and a field without a block
\* returns the error at once
BeginReadColumns(password, columns, cpu) ==
    /\ hst = "open"
    /\ run = NoCall
    /\ LET r == NewReader(metadata, password)
           fields == SelectedFields(metadata.Schema, columns)
           missing == { i \in 1..Len(fields) : ~HasBlock(metadata, fields[i]) }
           call == Call("readcolumns", r, fields, cpu, NoRecord, 0)
       IN IF missing # {}
          THEN LET e == Err("no block info", fields[Min(missing)])
               IN /\ run' = [call EXCEPT !.returned = TRUE, !.err = e]
                  /\ last' = Result("readcolumns", password, columns, e, FALSE, NoRecord)
          ELSE /\ run' = call
               /\ UNCHANGED last
    /\ UNCHANGED <<failures, disk, hst, pos, metadata, writer, reader, createPw, written,
                   trailerAt, persisted, repairs>>

\* Lockbox.Write enters WriteRecord: the writer is created on the first call;
\* the caller holds one reference to the batch
BeginWrite(record, password, rnd, cpu) ==
    /\ hst = "open"
    /\ run = NoCall
    /\ Len(written) < MaxWrites
    /\ Trailers < MaxTrailers
    /\ LET w == IF writer.nil THEN NewWriter(metadata, password) ELSE writer
       IN /\ writer' = w
          /\ run' = [Call("write", w, record.fields, cpu, record, rnd) EXCEPT !.batch = 1]
    /\ UNCHANGED <<failures, disk, hst, pos, metadata, reader, last, createPw, written,
                   trailerAt, persisted, repairs>>

\* One iteration of the loop that starts the workers: ReadRecord locates the
\* first block of the field; WriteRecord takes a slot of the semaphore, which
\* has runtime.NumCPU() slots, before the go statement
Spawn ==
    /\ run.kind # "none"
    /\ ~run.returned
    /\ run.next < Len(run.fields)
    /\ LET i == run.next + 1
       IN /\ run.kind = "read" => HasBlock(metadata, run.fields[i])
          /\ run.kind = "write" => run.sem < run.cpu
          /\ run' = [run EXCEPT !.next = i, !.slots[i].pc = "running",
                                !.sem = IF run.kind = "write" THEN @ + 1 ELSE @]
    /\ UNCHANGED <<failures, disk, hst, pos, metadata, writer, reader, last, createPw,
                   written, trailerAt, persisted, repairs>>

\* The loop of ReadRecord meets a field without a block: it returns the error
ReturnNoBlock ==
    /\ run.kind = "read"
    /\ ~run.returned
    /\ run.next < Len(run.fields)
    /\ ~HasBlock(metadata, run.fields[run.next + 1])
    /\ LET e == Err("no block info", run.fields[run.next + 1])
       IN /\ run' = [run EXCEPT !.returned = TRUE, !.err = e]
          /\ last' = Result("read", run.codec.password, <<>>, e, FALSE, NoRecord)
    /\ UNCHANGED <<failures, disk, hst, pos, metadata, writer, reader, createPw,
                   written, trailerAt, persisted, repairs>>

\* Work with a write worker that keeps its slot of the semaphore
WorkKeepsSlot(i) ==
    /\ i \in InFlight(run)
    /\ LET f == run.fields[i]
           out == IF run.kind = "write"
                  THEN WriteColumn(run.codec, run.input, i, run.rnd)
                  ELSE ReadColumn(run.codec, f, FirstBlock(metadata, f), disk, Closed)
           held == IF run.kind # "write" /\ out.err = NoErr THEN 1 ELSE 0
       IN run' = [run EXCEPT !.slots[i] =
                     [pc |-> "done", out |-> out, refs |-> held, released |-> 0]]
    /\ UNCHANGED <<failures, disk, hst, pos, metadata, writer, reader, last, createPw,
                   written, trailerAt, persisted, repairs>>

\* The worker of column i runs to its end: it stores its result (a read worker
\* retains the array it stores) and, in WriteRecord, gives its slot of the
\* semaphore back
Work(i) ==
    /\ i \in InFlight(run)
    /\ LET f == run.fields[i]
           out == IF run.kind = "write"
                  THEN WriteColumn(run.codec, run.input, i, run.rnd)
                  ELSE ReadColumn(run.codec, f, FirstBlock(metadata, f), disk, Closed)
           held == IF run.kind # "write" /\ out.err = NoErr THEN 1 ELSE 0
       IN run' = [run EXCEPT !.slots[i] =
                     [pc |-> "done", out |-> out, refs |-> held, released |-> 0],
                             !.sem = IF run.kind = "write" THEN @ - 1 ELSE @]
    /\ UNCHANGED <<failures, disk, hst, pos, metadata, writer, reader, last, createPw,
                   written, trailerAt, persisted, repairs>>

\* wg.Wait of ReadRecord and ReadColumns returns; the results are gathered and
\* Lockbox.Read logs a successful read
JoinRead ==
    /\ run.kind \in {"read", "readcolumns"}
    /\ ~run.returned
    /\ run.next = Len(run.fields)
    /\ InFlight(run) = {}
    /\ LET c == Gather(run)
           ok == c.err = NoErr
       IN /\ run' = c
          /\ metadata' = IF ok
                         THEN LogAccess(metadata, "read", <<"read", c.record.rows, "rows">>)
                         ELSE metadata
          /\ last' = Result(run.kind, run.codec.password, <<>>, c.err, ok, c.record)
    /\ UNCHANGED <<failures, disk, hst, pos, writer, reader, createPw, written,
                   trailerAt, persisted, repairs>>

\* wg.Wait of WriteRecord returns; the first error is returned or the payloads
\* are appended and the trailer rewritten; the deferred record.Release() runs
\* on every return
JoinWrite ==
    /\ run.kind = "write"
    /\ ~run.returned
    /\ run.next = Len(run.fields)
    /\ InFlight(run) = {}
    /\ LET res == WriteRecord(run.codec, run.input, disk, Closed, pos, metadata, run.rnd)
       IN /\ run' = [run EXCEPT !.returned = TRUE, !.err = res.err, !.batch = @ - 1]
          /\ disk' = res.data
          /\ pos' = res.pos
          /\ metadata' = res.meta
          /\ last' = Result("write", run.codec.password, <<>>, res.err, res.err = NoErr,
                            NoRecord)
          /\ IF res.err = NoErr
             THEN /\ written' = Append(written, [record |-> run.input,
                                                 password |-> run.codec.password])
                  /\ trailerAt' = res.metadataPos
                  /\ persisted' = res.meta
             ELSE UNCHANGED <<written, trailerAt, persisted>>
    /\ UNCHANGED <<failures, hst, writer, reader, createPw, repairs>>

\* The context given to Lockbox.Write is cancelled before WriteRecord has
\* started a worker or while workers run
Cancel ==
    /\ run.kind = "write"
    /\ ~run.returned
    /\ ~run.done
    /\ run.next < Len(run.fields) \/ InFlight(run) # {}
    /\ run' = [run EXCEPT !.done = TRUE]
    /\ UNCHANGED <<failures, disk, hst, pos, metadata, writer, reader, last, createPw,
                   written, trailerAt, persisted, repairs>>

\* A call of crypto.NewKey: the key it returns is kept in the result
NewKeyCall(password, salt, secret) ==
    /\ last' = Result("newkey", password, <<NewKey(password, salt, secret)>>, NoErr, TRUE,
                      NoRecord)
    /\ UNCHANGED <<failures, run, disk, hst, pos, metadata, writer, reader, createPw,
                   written, trailerAt, persisted, repairs>>

\* The caller of Write releases its batch after Write has returned
CallerRelease ==
    /\ run.kind = "write"
    /\ run.returned
    /\ ~run.freed
    /\ run' = [run EXCEPT !.batch = @ - 1, !.freed = TRUE]
    /\ UNCHANGED <<failures, disk, hst, pos, metadata, writer, reader, last, createPw,
                   written, trailerAt, persisted, repairs>>

\* Someone changes one byte of a block on disk (or changes it back)
Tamper(off) ==
    /\ disk # <<>>
    /\ off \in 0..(Len(disk) - 1)
    /\ IsPayload(disk[off + 1])
    /\ disk[off + 1].x = 1 \/ Cardinality(Tampered) < MaxTamper
    /\ disk' = [disk EXCEPT ![off + 1].x = 1 - @]
    /\ last' = Result("tamper", "", <<>>, NoErr, TRUE, NoRecord)
    /\ UNCHANGED <<failures, run, hst, pos, metadata, writer, reader, createPw, written,
                   trailerAt, persisted, repairs>>

\* The ways the header or the trailer of a closed file is damaged
Damages == {"magic", "version", "offset zero", "offset stale", "offset beyond",
            "length", "trailer", "truncate"}

\* Someone damages the header or the trailer of the closed, so far undamaged file
Damage(kind) ==
    /\ hst = "closed"
    /\ readHeader(disk).err = "none"
    /\ FromLittleEndian(SubSeq(disk, MetadataOffsetPos + 1, HeaderEnd)) = trailerAt
    /\ disk' =
          CASE kind = "magic" -> [disk EXCEPT ![1] = Byte(77)]
            [] kind = "version" -> WriteAtCursor(disk, 8, LittleEndian(FileFormatVersion + 1, 4))
            [] kind = "offset zero" -> WriteAtCursor(disk, MetadataOffsetPos, LittleEndian(0, 8))
            [] kind = "offset stale" ->
                  WriteAtCursor(disk, MetadataOffsetPos, LittleEndian(HeaderEnd, 8))
            [] kind = "offset beyond" ->
                  WriteAtCursor(disk, MetadataOffsetPos, LittleEndian(Len(disk), 8))
            [] kind = "length" ->
                  WriteAtCursor(disk, trailerAt,
                                LittleEndian(Len(disk) - trailerAt - 4 + 1, 4))
            [] kind = "trailer" -> [disk EXCEPT ![Len(disk)].x = 1]
            [] kind = "truncate" -> SubSeq(disk, 1, Len(disk) - 1)
    /\ last' = Result("damage", "", <<kind>>, NoErr, TRUE, NoRecord)
    /\ UNCHANGED <<failures, run, hst, pos, metadata, writer, reader, createPw, written,
                   trailerAt, persisted, repairs>>

\* The life of a file without damage to its blocks: create (or fail to), write,
\* read, close and reopen
Next ==
    \/ \E schema \in Schemas, password \in CreatePasswords, salt \in Salts :
          Create(schema, password, salt)
    \/ \E schema \in Schemas, password \in CreatePasswords, salt \in Salts :
       \E fault \in CreateFaults : CreateFails(schema, password, salt, fault)
    \/ \E password \in Passwords : Open(password)
    \/ Close
    \/ \E record \in Batches(metadata.Schema), password \in Passwords, rnd \in Rands :
          Write(record, password, rnd)
    \/ \E password \in Passwords, columns \in ReadOptions(metadata.Schema) :
          Read(password, columns)
    \/ \E password \in Passwords :
       \E columns \in IF metadata.Schema = <<>> THEN {} ELSE Projections(metadata.Schema) :
          ReadColumnsCall(password, columns)

Spec == Init /\ [][Next]_vars

\* Damage and recovery: writes under the creation password, bytes of blocks changed
\* on disk, validate, repair, read under any password
NextIntegrity ==
    \/ \E schema \in Schemas, password \in CreatePasswords, salt \in Salts :
          Create(schema, password, salt)
    \/ \E record \in Batches(metadata.Schema), rnd \in Rands :
          Write(record, createPw, rnd)
    \/ \E password \in Passwords : Read(password, <<>>)
    \/ Validate
    \/ RepairCall
    \/ \E off \in 0..(Len(disk) - 1) : Tamper(off)

SpecIntegrity == Init /\ [][NextIntegrity]_vars

\* Opening a file whose header or trailer was damaged while it was closed
NextHeader ==
    \/ \E schema \in Schemas, password \in CreatePasswords, salt \in Salts :
          Create(schema, password, salt)
    \/ \E record \in Batches(metadata.Schema), rnd \in Rands :
          Write(record, createPw, rnd)
    \/ Close
    \/ \E password \in Passwords : Open(password)
    \/ \E password \in Passwords : Read(password, <<>>)
    \/ \E kind \in Damages : Damage(kind)

SpecHeader == Init /\ [][NextHeader]_vars

\* Reading: read, column read and validate on a file whose blocks may be damaged
NextReads ==
    \/ \E schema \in Schemas, password \in CreatePasswords, salt \in Salts :
          Create(schema, password, salt)
    \/ \E record \in Batches(metadata.Schema), rnd \in Rands :
          Write(record, createPw, rnd)
    \/ \E password \in Passwords : Read(password, <<>>)
    \/ \E columns \in { <<f>> : f \in Range(metadata.Schema) } \cup { <<UnknownColumn>> } :
          ReadColumnsCall(createPw, columns)
    \/ Validate
    \/ \E off \in 0..(Len(disk) - 1) : Tamper(off)

SpecReads == Init /\ [][NextReads]_vars

\* Calls on a closed handle; the schemas include the schema without fields
NextClosed ==
    \/ \E schema \in Schemas \cup {<<>>}, password \in CreatePasswords, salt \in Salts :
          Create(schema, password, salt)
    \/ \E record \in Batches(metadata.Schema), rnd \in Rands :
          Write(record, createPw, rnd)
    \/ \E password \in Passwords : Read(password, <<>>)
    \/ Close
    \/ Open(createPw)
    \/ \E record \in Batches(metadata.Schema), rnd \in Rands :
          WriteOnClosed(record, createPw, rnd)
    \/ \E password \in Passwords : ReadOnClosed(password)

SpecClosed == Init /\ [][NextClosed]_vars

\* One query on a table of one written batch
NextQuery ==
    \/ \E password \in CreatePasswords, salt \in Salts :
          Create(QuerySchema, password, salt)
    \/ \E record \in QueryBatches, rnd \in Rands :
          written = <<>> /\ Write(record, createPw, rnd)
    \/ \E q \in Queries : last.op # "query" /\ QueryCall(q, createPw)

SpecQuery == Init /\ [][NextQuery]_vars

\* Writes that fail, among writes that succeed, repairs and reopening
NextFaults ==
    \/ \E schema \in Schemas, password \in CreatePasswords, salt \in Salts :
          Create(schema, password, salt)
    \/ \E record \in Batches(metadata.Schema), rnd \in Rands :
          Write(record, createPw, rnd)
    \/ \E record \in FailingBatches(metadata.Schema), rnd \in Rands :
          \E fault \in WriteFaults(record) : WriteFails(record, createPw, rnd, fault)
    \/ RepairCall
    \/ Close
    \/ Open(createPw)

SpecFaults == Init /\ [][NextFaults]_vars

----------------------------------------------------------------------------
(* Properties *)

\* The column workers of one call: a file of two columns is written once, a
\* byte of a block may be changed and a repair may drop the block; then one
\* read, column read or write is followed step by step
NextWorkers ==
    \/ \E password \in CreatePasswords, salt \in Salts :
          Create(WorkerSchema, password, salt)
    \/ \E record \in Batches(metadata.Schema), rnd \in Rands :
          run = NoCall /\ written = <<>> /\ Write(record, createPw, rnd)
    \/ \E off \in 0..(Len(disk) - 1) : run = NoCall /\ Tamper(off)
    \/ run = NoCall /\ RepairCall
    \/ \E cpu \in Cpus : BeginRead(createPw, cpu)
    \/ \E cpu \in Cpus :
       \E columns \in IF metadata.Schema = <<>> THEN {} ELSE Projections(metadata.Schema) :
          BeginReadColumns(createPw, columns, cpu)
    \/ \E record \in FailingBatches(metadata.Schema), rnd \in Rands, cpu \in Cpus :
          BeginWrite(record, createPw, rnd, cpu)
    \/ Spawn
    \/ ReturnNoBlock
    \/ \E i \in 1..Len(run.slots) : Work(i)
    \/ JoinRead
    \/ JoinWrite
    \/ Cancel
    \/ CallerRelease

SpecWorkers == Init /\ [][NextWorkers]_vars

\* Keys: a file is created, written, closed and opened, and keys are
\* generated for the passwords
NextKeys ==
    \/ \E schema \in Schemas, password \in CreatePasswords, salt \in Salts :
          Create(schema, password, salt)
    \/ \E record \in Batches(metadata.Schema), rnd \in Rands :
          Write(record, createPw, rnd)
    \/ Close
    \/ Open(createPw)
    \/ \E password \in Passwords, salt \in Salts :
       \E secret \in Scalars(password, salt) : NewKeyCall(password, salt, secret)

SpecKeys == Init /\ [][NextKeys]_vars

\* The worker pool of a write: one write of 0, 1 or 2 columns on a machine of
\* 1 to MaxCpu processors, followed step by step
NextPool ==
    \/ \E password \in CreatePasswords, salt \in Salts :
          Create(WorkerSchema, password, salt)
    \/ \E record \in PoolBatches(metadata.Schema), rnd \in Rands, cpu \in Cpus :
          BeginWrite(record, createPw, rnd, cpu)
    \/ Spawn
    \/ \E i \in 1..Len(run.slots) : Work(i)
    \/ JoinWrite
    \/ CallerRelease

\* wg.Wait of WriteRecord can return: the loop has started every worker and
\* every worker has called wg.Done (the condition under which JoinWrite is
\* enabled)
WaitReady ==
    /\ run.kind = "write"
    /\ ~run.returned
    /\ run.next = Len(run.fields)
    /\ InFlight(run) = {}

\* The Go scheduler runs every goroutine that can run: the dispatching loop,
\* each worker, and the return from wg.Wait (weak fairness of JoinWrite,
\* written with its enabling condition)
SpecPool ==
    /\ Init
    /\ [][NextPool]_vars
    /\ WF_vars(Spawn)
    /\ \A i \in 1..Len(WorkerSchema) : WF_vars(Work(i))
    /\ ([]<>~WaitReady \/ []<><<JoinWrite>>_vars)

\* C1: on a file created with a password and written once with it, a read with
\* that password (on the same handle, or after close and open) succeeds and
\* returns the written batch: the same column names in the same order, the same
\* row count, the same values.
RoundTrip ==
    (/\ last.op = "read"
     /\ last.pw = createPw
     /\ reader.password = createPw
     /\ Len(written) = 1
     /\ written[1].password = createPw)
    => (last.ok /\ last.err = NoErr /\ last.record = written[1].record)

\* A read with the creation password, after close and open, returned the one batch of
\* two columns and two rows that was written
RoundTripReopened ==
    /\ last.op = "read" /\ last.ok
    /\ last.pw = createPw
    /\ writer.nil
    /\ Len(written) = 1 /\ written[1].password = createPw
    /\ last.record = written[1].record
    /\ Len(last.record.fields) = 2 /\ last.record.rows = 2

\* C2: on a file created and written with one password, the first read of a handle
\* with a different password fails with the decryption (authentication) error and
\* returns no batch.
WrongPasswordFails ==
    (/\ last.op = "read"
     /\ last.pw # createPw
     /\ reader.password = last.pw
     /\ written # <<>>
     /\ \A i \in 1..Len(written) : written[i].password = createPw)
    => (/\ ~last.ok
        /\ last.err.kind = "failed to decrypt"
        /\ last.record = NoRecord)

\* A reopened handle refused a read with another password than the one of the writes
WrongPasswordRefused ==
    /\ last.op = "read" /\ ~last.ok
    /\ last.pw # createPw /\ reader.password = last.pw
    /\ writer.nil
    /\ written # <<>> /\ \A i \in 1..Len(written) : written[i].password = createPw
    /\ last.err = Err("failed to decrypt", metadata.Schema[1])

\* The blocks of the directory that hold a byte changed on disk
TamperedBlocks ==
    { i \in 1..Len(metadata.BlockInfo) :
        \E off \in Tampered :
            /\ metadata.BlockInfo[i].Offset <= off
            /\ off < metadata.BlockInfo[i].Offset + metadata.BlockInfo[i].Length }

\* C3: when exactly one byte on disk differs from what was written and it lies in a
\* block of the block directory (the blocks validate walks), validate returns the
\* corruption error naming the column of that block; when no byte of a block of the
\* directory differs, validate returns success.
ValidateDetectsTamper ==
    last.op = "validate" =>
        /\ TamperedBlocks = {} => (last.ok /\ last.err = NoErr)
        /\ \A i \in TamperedBlocks :
              Cardinality(Tampered) = 1 =>
                  /\ ~last.ok
                  /\ last.err = Err("corrupted data block", metadata.BlockInfo[i].ColumnName)

\* validate named column name after a byte of its block of the second write was changed
ValidateNamedColumn ==
    /\ last.op = "validate" /\ ~last.ok
    /\ Cardinality(Tampered) = 1
    /\ Len(written) = 2
    /\ \E i \in TamperedBlocks :
          /\ i > Len(metadata.Schema)
          /\ metadata.BlockInfo[i].ColumnName = "name"
          /\ last.err = Err("corrupted data block", "name")

\* C4 as stated: after one byte of any block of column c in the directory is changed,
\* a read (which projects every column) fails with the corruption error for c and
\* returns no batch, whatever the password.
TamperedReadAnyBlock ==
    (last.op = "read" /\ Cardinality(Tampered) = 1) =>
        \A i \in TamperedBlocks :
            /\ ~last.ok
            /\ last.record = NoRecord
            /\ last.err = Err("corrupted data block", metadata.BlockInfo[i].ColumnName)

\* C4, amended: after one byte of the block that a read uses for column c (the first
\* block of c in the directory) is changed, a read fails and returns no batch.  The
\* checksum of a column is verified before its decryption, and the error returned is
\* that of the first failing column in schema order: it is the corruption error for c
\* when every column has a block and either the reader holds the password of the
\* writes or c is the first column; with another password and c not the first
\* column it is the decryption error of the first column.  A changed byte in a later
\* block of c never makes read return the corruption error.
TamperedReadFirstBlock ==
    (last.op = "read" /\ Cardinality(Tampered) = 1) =>
        \A i \in TamperedBlocks :
            LET c == metadata.BlockInfo[i].ColumnName
                complete == \A f \in Range(metadata.Schema) : HasBlock(metadata, f)
                keyed == /\ reader.password = createPw
                         /\ \A k \in 1..Len(written) : written[k].password = createPw
            IN IF metadata.BlockInfo[i] = FirstBlock(metadata, c)
               THEN /\ ~last.ok
                    /\ last.record = NoRecord
                    /\ (complete /\ (keyed \/ IndexOf(metadata.Schema, c) = 1))
                          => last.err = Err("corrupted data block", c)
                    /\ (complete /\ ~keyed /\ IndexOf(metadata.Schema, c) > 1)
                          => last.err = Err("failed to decrypt", metadata.Schema[1])
               ELSE last.err.kind # "corrupted data block"

\* A read with another password than that of the writes met the changed first block
\* of the first column and returned the corruption error, not a decryption error
TamperedReadWrongPassword ==
    /\ last.op = "read" /\ ~last.ok
    /\ Cardinality(Tampered) = 1
    /\ reader.password # createPw
    /\ Len(metadata.Schema) = 2
    /\ \E i \in TamperedBlocks :
          /\ metadata.BlockInfo[i] = FirstBlock(metadata, metadata.Schema[1])
          /\ last.err = Err("corrupted data block", metadata.Schema[1])

\* C5: when repair returns successfully, a validate that follows it directly returns
\* success: every block that repair left in the directory is intact on disk.
RepairThenValidate ==
    (last.op = "repair" /\ last.ok) => ValidateBlocks(disk, Closed, metadata) = NoErr

\* repair succeeded on a file of two writes with a changed byte, dropped the changed
\* block and kept the others
RepairDroppedBlock ==
    /\ last.op = "repair" /\ last.ok
    /\ Len(written) = 2
    /\ Tampered # {}
    /\ TamperedBlocks = {}
    /\ Len(metadata.BlockInfo) = 2 * Len(metadata.Schema) - 1

\* C6 as stated: a second repair directly after a successful repair leaves the block
\* directory, the file's contents and length, and the header's metadata_offset
\* unchanged.
RepairTwiceNoOp ==
    [][(last.op = "repair" /\ last.ok /\ last'.op = "repair")
          => (metadata'.BlockInfo = metadata.BlockInfo /\ disk' = disk)]_vars

\* C6, amended: a second repair directly after a successful repair succeeds and
\* leaves the metadata in memory (so the block directory) unchanged and every byte
\* of the file outside the header's metadata_offset slot unchanged; it appends one
\* more trailer, equal to the previous one, so the file grows by the length of a
\* trailer and metadata_offset moves from the previous trailer to the new one.
RepairTwiceAppendsTrailer ==
    [][(last.op = "repair" /\ last.ok /\ last'.op = "repair")
          => /\ last'.ok
             /\ metadata' = metadata
             /\ FromLittleEndian(SubSeq(disk, MetadataOffsetPos + 1, HeaderEnd)) = trailerAt
             /\ Len(disk') = Len(disk) + (Len(disk) - trailerAt)
             /\ \A i \in 1..Len(disk) :
                   (i <= MetadataOffsetPos \/ i > HeaderEnd) => disk'[i] = disk[i]
             /\ SubSeq(disk', Len(disk) + 1, Len(disk')) = SubSeq(disk, trailerAt + 1, Len(disk))
             /\ FromLittleEndian(SubSeq(disk', MetadataOffsetPos + 1, HeaderEnd)) = Len(disk)
      ]_vars

\* Two repairs in a row on a written file with a changed byte: the file ends with
\* two equal trailers and the header points to the second
RepairedTwice ==
    /\ last.op = "repair" /\ last.ok
    /\ repairs = 2
    /\ written # <<>>
    /\ Tampered # {}
    /\ LET n == Len(disk) - trailerAt
       IN /\ trailerAt - n >= HeaderEnd
          /\ SubSeq(disk, trailerAt - n + 1, trailerAt) = SubSeq(disk, trailerAt + 1, Len(disk))

\* C7: a read given a non-empty list of distinct schema columns returns a batch
\* whose columns are those of the list, in the order of the list.
ProjectionFaithful ==
    (/\ last.op \in {"read", "readcolumns"}
     /\ last.ok
     /\ last.cols # <<>>
     /\ Range(last.cols) \subseteq Range(metadata.Schema))
    => last.record.fields = last.cols

\* C8: a read fails, returns no batch and names a column that has no block whenever
\* the block directory holds no block for some column that the read projects (a
\* read projects every column of the schema); the column named is the first such
\* column in schema order.
DirectoryCoverage ==
    LET missing == { i \in 1..Len(metadata.Schema) : ~HasBlock(metadata, metadata.Schema[i]) }
    IN (last.op = "read" /\ missing # {}) =>
          /\ ~last.ok
          /\ last.record = NoRecord
          /\ last.err = Err("no block info", metadata.Schema[Min(missing)])

\* A read failed on column name after repair dropped its only block and kept the
\* block of column id
ReadAfterBlockDropped ==
    /\ last.op = "read" /\ ~last.ok
    /\ repairs >= 1
    /\ Len(written) = 1
    /\ HasBlock(metadata, "id")
    /\ last.err = Err("no block info", "name")

\* C9: a column read whose list names a column that is no field of the schema
\* returns an error and no batch.
UnknownColumnFails ==
    (last.op = "readcolumns" /\ ~(Range(last.cols) \subseteq Range(metadata.Schema)))
    => (~last.ok /\ last.record = NoRecord)

\* C10: after every successful create, write and repair the header's metadata_offset
\* is non-zero and is the offset of the trailer written last; that trailer is a
\* complete length-prefixed record that ends the file; and reading the header
\* yields exactly the metadata (schema, block directory, access log) that was in
\* memory at that rewrite.
HeaderFresh ==
    (last.op \in {"create", "write", "repair"} /\ last.ok) =>
        LET metadataOffset == FromLittleEndian(SubSeq(disk, MetadataOffsetPos + 1, HeaderEnd))
            rh == readHeader(disk)
        IN /\ metadataOffset # 0
           /\ metadataOffset = trailerAt
           /\ rh.err = "none"
           /\ rh.pos = Len(disk)
           /\ rh.meta = persisted
           /\ rh.meta = metadata

\* The fourth trailer of a file, written by a repair that dropped a block: three
\* stale trailers precede it and the header leads to the directory without the block
HeaderAfterRepair ==
    /\ last.op = "repair" /\ last.ok
    /\ Trailers = MaxTrailers
    /\ Len(written) = 2
    /\ Len(metadata.BlockInfo) < 2 * Len(metadata.Schema)
    /\ readHeader(disk).meta.BlockInfo = metadata.BlockInfo
    /\ Len(readHeader(disk).meta.AccessLog) = 2

\* C11: whenever Create returns a handle, the file at the path opens: its header
\* leads to a trailer that holds the given schema, the given creator, an empty block
\* directory and an empty access log, and an Open before any write succeeds with
\* exactly that metadata; whenever Create returns an error, no file is left at the
\* path and there is no handle.
CreateAllOrNothing ==
    /\ (last.op = "create" /\ last.ok) =>
          LET rh == readHeader(disk)
          IN /\ rh.err = "none"
             /\ rh.meta.Schema = metadata.Schema /\ rh.meta.Schema \in Schemas
             /\ rh.meta.CreatedBy = Creator
             /\ rh.meta.BlockInfo = <<>> /\ rh.meta.AccessLog = <<>>
    /\ (last.op = "open" /\ written = <<>>) =>
          /\ last.ok
          /\ metadata = NewMetadata(persisted.Schema, persisted.MasterSalt, Creator)
    /\ (last.op = "create" /\ ~last.ok) => (disk = <<>> /\ hst = "none")

\* Create failed in updateMetadata, after the header was written, and returned no handle
CreateFailedLate ==
    /\ last.op = "create" /\ ~last.ok
    /\ last.err = Err("failed to write initial metadata", "")
    /\ hst = "none"

\* C12: an Open of a file whose magic is not "LOCKBOX\0", whose version is not 1
\* or whose metadata_offset is 0 returns an error and no handle; an Open succeeds
\* only if the length-prefixed trailer at metadata_offset lies completely in the
\* file and parses, and then the handle holds the metadata of that trailer; no
\* Open changes a byte of the file.
OpenDiscipline ==
    [][last'.op = "open" =>
          LET magic == SubSeq(disk, 1, 8)
              version == FromLittleEndian(SubSeq(disk, 9, 12))
              metadataOffset ==
                  FromLittleEndian(SubSeq(disk, MetadataOffsetPos + 1, HeaderEnd))
              metadataLen ==
                  FromLittleEndian(SubSeq(disk, metadataOffset + 1, metadataOffset + 4))
              end == metadataOffset + 4 + metadataLen
          IN /\ disk' = disk
             /\ (magic # MagicBytes \/ version # FileFormatVersion \/ metadataOffset = 0)
                   => (~last'.ok /\ hst' = "closed" /\ metadata' = metadata)
             /\ last'.ok =>
                   /\ hst' = "open"
                   /\ metadataOffset + 4 <= Len(disk)
                   /\ end <= Len(disk)
                   /\ ~Deserialize(SubSeq(disk, metadataOffset + 5, end)).err
                   /\ metadata' = Deserialize(SubSeq(disk, metadataOffset + 5, end)).meta
      ]_vars

\* An Open was refused because the header's metadata_offset is 0
OpenRefusedNoMetadata ==
    /\ last.op = "open" /\ ~last.ok
    /\ last.err = Err("file has no metadata", "")
    /\ hst = "closed"
    /\ written # <<>>
    /\ FromLittleEndian(SubSeq(disk, MetadataOffsetPos + 1, HeaderEnd)) = 0

\* C13: a read, a column read (the file access of a query) and a validate, whether
\* they succeed or fail, leave every byte of the file (so the header's
\* metadata_offset and the trailer on disk), the cursor, the block directory and
\* the cached writer unchanged; a successful read or column read appends one read
\* entry to the access log in memory and changes nothing else of the metadata; a
\* failed one and validate leave the metadata unchanged.
ReadsDoNotMutate ==
    [][last'.op \in {"read", "readcolumns", "validate"} =>
          /\ disk' = disk
          /\ pos' = pos
          /\ writer' = writer
          /\ metadata'.BlockInfo = metadata.BlockInfo
          /\ IF last'.ok /\ last'.op # "validate"
             THEN metadata' = [metadata EXCEPT !.AccessLog =
                      Append(@, [Action |-> "read",
                                 Details |-> <<"read", last'.record.rows, "rows">>])]
             ELSE metadata' = metadata
      ]_vars

\* A read failed on a block with a changed byte after a write; the access log in
\* memory holds the write entry only, as does the trailer on disk
FailedReadLeftNoTrace ==
    /\ last.op = "read" /\ ~last.ok
    /\ last.err.kind = "corrupted data block"
    /\ Len(written) = 1
    /\ Len(metadata.AccessLog) = 1
    /\ readHeader(disk).meta = metadata

\* C14: after Close, every Write and every Read on the handle returns an error and
\* changes neither the file's contents nor the block directory in memory.
ClosedHandleRefuses ==
    [][(hst = "closed" /\ last'.op \in {"read", "write"}) =>
          /\ ~last'.ok
          /\ disk' = disk
          /\ metadata'.BlockInfo = metadata.BlockInfo
      ]_vars

----------------------------------------------------------------------------
(* Queries: what the specification asks of a result *)

\* The batch the queried table holds, and the result of the query just run
Table == written[1].record
Queried(q) == last.op = "query" /\ written # <<>> /\ last.cols = q

\* The select lists that name columns, and the names they list
ColumnLists == { <<Name("name")>>, <<Name("score"), Name("name")>> }
Names(sel) == [i \in 1..Len(sel) |-> sel[i].s]
Operators == { Sym("="), Sym("<"), Sym(">"), Sym("<="), Sym(">=") }

\* c op v on a value: numbers numerically, strings for equality with the literal
\* as written (quotes stripped, case kept), a null never
Holds(v, op, lit) ==
    IF v.t = "num"
    THEN /\ lit.k = "num"
         /\ \/ op = Sym(">") /\ v.n > lit.n
            \/ op = Sym("<") /\ v.n < lit.n
            \/ op = Sym("=") /\ v.n = lit.n
            \/ op = Sym(">=") /\ v.n >= lit.n
            \/ op = Sym("<=") /\ v.n <= lit.n
    ELSE v.t = "str" /\ op = Sym("=") /\ lit.k # "num" /\ v.s = lit.s /\ v.c = lit.c

\* The rows of the table a WHERE clause keeps, in table order
Matching(rec, w) ==
    LET Keep(i) == Holds(Column(rec, w[2].s)[i], w[3], w[4])
        all == [i \in 1..rec.rows |-> i]
    IN IF w = <<>> THEN all ELSE SelectSeq(all, Keep)

\* a sorts strictly before b: by value, nulls last ascending and first descending
ValueBefore(a, b) ==
    IF a.t = "num" THEN a.n < b.n ELSE StrRank(a) < StrRank(b)
SortsBefore(a, b, desc) ==
    LET asc(x, y) == x # Null /\ (y = Null \/ ValueBefore(x, y))
    IN IF desc THEN asc(b, a) ELSE asc(a, b)

\* The orders of the kept rows an ORDER BY clause allows
Ordered(rec, idx, o) ==
    LET col == Column(rec, o[3].s)
        desc == Len(o) = 4 /\ o[4] = Name("desc")
    IN IF o = <<>> THEN {idx}
       ELSE { p \in Orderings(idx) :
                \A i, j \in 1..Len(p) : i < j => ~SortsBefore(col[p[j]], col[p[i]], desc) }

\* The first n rows under a LIMIT n clause
Limited(idx, l) == IF l = <<>> THEN idx ELSE SubSeq(idx, 1, Min({l[2].n, Len(idx)}))

\* The batch of the named columns of the given rows, values as the table has them
Projected(rec, names, idx) ==
    Record(names,
           [c \in 1..Len(names) |-> [r \in 1..Len(idx) |-> Column(rec, names[c])[idx[r]]]],
           Len(idx))

\* The results the specification allows for SELECT sel FROM data w o l
Expected(rec, names, w, o, l) ==
    { Projected(rec, names, Limited(p, l)) : p \in Ordered(rec, Matching(rec, w), o) }

\* C15: a query with WHERE, ORDER BY and LIMIT n over named columns succeeds and
\* returns the columns of the select list, in its order, holding the first n of
\* the rows that satisfy the WHERE clause after sorting them by the ORDER BY column
QueryPipeline ==
    \A sel \in ColumnLists, w \in Wheres, o \in Orders, l \in Limits :
       (/\ w # <<>> /\ o # <<>> /\ l # <<>>
        /\ w[3] \in Operators
        /\ Queried(SelectFrom(sel, w, o, l, <<>>)))
       => /\ last.ok
          /\ last.record \in Expected(Table, Names(sel), w, o, l)

\* C16: SELECT id FROM data WHERE c op v, op one of = < > <= >=, returns exactly
\* the rows for which c op v holds: numbers compared numerically, strings for
\* equality with the literal without its quotes and in the case it was written
QueryPredicate ==
    \A w \in Wheres :
       (/\ w # <<>> /\ w[3] \in Operators
        /\ Queried(SelectFrom(<<Name("id")>>, w, <<>>, <<>>, <<>>)))
       => /\ last.ok
          /\ last.record = Projected(Table, <<"id">>, Matching(Table, w))

\* C17: SELECT * returns every field of the schema, in schema order, with or
\* without a WHERE clause and an ORDER BY clause
SelectStarAllFields ==
    \A w \in Wheres, o \in Orders, l \in Limits :
       (Queried(SelectFrom(<<Sym("*")>>, w, o, l, <<>>)) /\ last.ok)
       => last.record.fields = metadata.Schema

\* No row of a result has a null in the WHERE column of the query
NullsNeverMatch ==
    \A w \in Wheres :
       (/\ w # <<>> /\ w[3] \in Operators
        /\ Queried(SelectFrom(<<Name("id")>>, w, <<>>, <<>>, <<>>)) /\ last.ok)
       => \A r \in 1..last.record.rows :
             Column(Table, w[2].s)[last.record.cols[1][r].n] # Null
\* ORDER BY c ASC or DESC succeeds and leaves the rows in an allowed order
NullsSortLast ==
    \A o \in Orders :
       (Len(o) = 4 /\ Queried(SelectFrom(<<Name("id")>>, <<>>, o, <<>>, <<>>)))
       => /\ last.ok
          /\ last.record \in Expected(Table, <<"id">>, <<>>, o, <<>>)
\* C18: a row whose WHERE column is null satisfies no predicate; sorting a column
\* with nulls (ORDER BY c ASC or DESC) succeeds and puts the nulls last
\* ascending, first descending
NullHandling == NullsNeverMatch /\ NullsSortLast

\* The sum of a numeric column
Sum(col) == LET RECURSIVE Upto(_)
                Upto(n) == IF n = 0 THEN 0 ELSE Upto(n - 1) + col[n].n
            IN Upto(Len(col))

\* C19: a select list of aggregates returns one row with one column per
\* aggregate: COUNT(*) is the number of rows of the table, AVG(score) is the
\* sum of the scores divided by the number of rows (avg * rows = sum)
Aggregates ==
    Queried(SelectFrom(<<Name("count(*)"), Name("avg(score)")>>, <<>>, <<>>, <<>>, <<>>))
    => /\ last.ok
       /\ last.record.rows = 1
       /\ Len(last.record.fields) = 2
       /\ last.record.cols[1][1] = Number(Table.rows)
       /\ last.record.cols[2][1].n * Table.rows = Sum(Column(Table, "score"))

\* The errors of parseQuery
ParseErrors == { "invalid query", "invalid WHERE clause", "invalid ORDER BY clause",
                 "invalid LIMIT clause", "invalid LIMIT value" }

\* C20: a query with an extra clause or unknown trailing words (GROUP BY name)
\* or with an operator other than = < > <= >= returns a parse error and no batch
UnsupportedRefused ==
    \A sel \in SelectLists, w \in Wheres, o \in Orders, l \in Limits, t \in Tails :
       (/\ t # <<>> \/ (w # <<>> /\ w[3] \notin Operators)
        /\ Queried(SelectFrom(sel, w, o, l, t)))
       => /\ ~last.ok
          /\ last.err.kind \in ParseErrors
          /\ last.record = NoRecord

\* C21: SELECT id FROM data ORDER BY c, with no direction and nothing after the
\* column, is accepted and returns the rows in ascending order of c
OptionalDirection ==
    \A o \in Orders :
       (Len(o) = 3 /\ Queried(SelectFrom(<<Name("id")>>, <<>>, o, <<>>, <<>>)))
       => /\ last.ok
          /\ last.record \in Expected(Table, <<"id">>, <<>>, o, <<>>)

----------------------------------------------------------------------------
(* Writes that fail *)

\* The errors of the parallel phase of a write, and the columns of the batch
\* just written whose worker fails
ParallelErrors == {"failed to serialize column", "no encryptor", "failed to encrypt column"}
FailingColumns ==
    { i \in 1..Len(last.record.fields) :
         \/ last.record.fields[i] \notin Range(metadata.Schema)
         \/ last.cols.col = i /\ last.cols.at \in WorkerFaults }

\* C22: a write that fails in the parallel phase returns the error of the failing
\* column with the lowest index, leaves the file and the cursor as they were,
\* adds no entry to the block directory or to the access log and writes no trailer
WriteAbortsCleanly ==
    [][ (last'.op = "write" /\ last'.err.kind \in ParallelErrors)
        => /\ SameCells(disk', disk)
           /\ pos' = pos
           /\ Len(metadata'.BlockInfo) = Len(metadata.BlockInfo)
           /\ Len(metadata'.AccessLog) = Len(metadata.AccessLog)
           /\ trailerAt' = trailerAt
           /\ last'.err.col = (last.record.fields[Min(FailingColumns)])' ]_vars

\* A write of a batch with two failing columns has reported the first one, on a
\* file that holds a batch
TwoColumnsFailed ==
    /\ last.op = "write" /\ last.err = Err("failed to encrypt column", "id")
    /\ last.record.fields = <<"id", UnknownColumn>>
    /\ written # <<>>

\* The errors of the serial phase of a write, and the columns of the write
\* that has just succeeded (none when the step is not a successful write)
AppendErrors == {"failed to get block start position", "failed to write encrypted data"}
ColumnsWritten ==
    IF last.op = "write" /\ last.ok /\ written # <<>>
    THEN Len(written[Len(written)].record.fields) ELSE 0

\* C23: a write that fails while appending a payload writes no trailer and leaves
\* no block of its own in the block directory in memory, and the step after it
\* persists no block but those of its own successful write
AppendFailureUnreferenced ==
    [][ /\ (last'.op = "write" /\ last'.err.kind \in AppendErrors)
           => /\ Len(metadata'.BlockInfo) = Len(metadata.BlockInfo)
              /\ trailerAt' = trailerAt
              /\ Trailers' = Trailers
        /\ (last.op = "write" /\ last.err.kind \in AppendErrors)
           => Len(persisted'.BlockInfo) <= Len(persisted.BlockInfo) + ColumnsWritten' ]_vars

\* C24: every block a write adds to the directory starts at the end of the file
\* as it was when the block was appended: the first at the length of the file
\* before the write, each next one where the one before it ends
AppendAtEnd ==
    [][ last'.op = "write"
        => \A i \in (Len(metadata.BlockInfo) + 1)..Len(metadata'.BlockInfo) :
              metadata'.BlockInfo[i].Offset =
                 IF i = Len(metadata.BlockInfo) + 1 THEN Len(disk)
                 ELSE metadata'.BlockInfo[i - 1].Offset + metadata'.BlockInfo[i - 1].Length ]_vars

\* The batch of the latest successful write
LastWritten == written[Len(written)].record

\* C25: a successful write of n columns adds n directory entries, one per
\* column in column order, contiguous and increasing, each with the row count
\* of the batch and the SHA-256 of its payload; one trailer is written, after the
\* last block, and it holds all n entries
WriteOrder ==
    [][ (last'.op = "write" /\ last'.ok)
        => LET old == Len(metadata.BlockInfo)
               new == metadata'.BlockInfo
               rec == LastWritten'
               n == Len(rec.fields)
               trailer == LittleEndian(Len(Serialize(metadata')), 4) \o Serialize(metadata')
           IN /\ Len(new) = old + n
              /\ \A i \in 1..n :
                    /\ new[old + i].ColumnName = rec.fields[i]
                    /\ new[old + i].RowCount = rec.rows
                    /\ \E rnd \in Rands :
                          LET payload == WriteColumn(writer', rec, i, rnd).data
                          IN /\ new[old + i].Length = Len(payload)
                             /\ DigestEqual(new[old + i].Checksum, Sha256(payload))
                    /\ i < n => new[old + i + 1].Offset
                                   = new[old + i].Offset + new[old + i].Length
              /\ n > 0 => trailerAt' >= new[old + n].Offset + new[old + n].Length
              /\ Len(disk') = trailerAt' + Len(trailer)
              /\ SameCells(SubSeq(disk', trailerAt' + 1, Len(disk')), trailer)
              /\ readHeader(disk').meta.BlockInfo = new ]_vars

\* Two columns have been written by a write that follows a failed write
TwoColumnsAfterFailure ==
    /\ last.op = "write" /\ last.ok /\ failures = 1
    /\ Len(LastWritten.fields) = 2
    /\ Len(metadata.BlockInfo) >= 3

\* The blocks the directory holds for a column
BlocksOf(m, name) == { i \in 1..Len(m.BlockInfo) : m.BlockInfo[i].ColumnName = name }
SamePassword == \A i \in 1..Len(written) : written[i].password = reader.password

\* C26: after k >= 1 successful writes to a freshly created file, all under the
\* password of the read, a read returns the batch of the first write, and the
\* directory holds k blocks for each column
ReadFirstBlock ==
    (last.op = "read" /\ written # <<>> /\ SamePassword)
    => /\ last.ok
       /\ last.record = written[1].record
       /\ \A f \in Range(metadata.Schema) :
             Cardinality(BlocksOf(metadata, f)) = Len(written)

\* A read after two writes of different batches
ReadAfterTwoWrites ==
    /\ last.op = "read" /\ last.ok
    /\ Len(written) = 2 /\ SamePassword
    /\ written[2].record # written[1].record
    /\ Len(metadata.Schema) = 2

\* The bytes a directory entry points to are in the file and hash to its checksum
OnDiskIntact(bi) ==
    /\ bi.Offset + bi.Length <= Len(disk)
    /\ SameCells(SubSeq(disk, bi.Offset + 1, bi.Offset + bi.Length), bi.Checksum[2])

\* C27: a repair leaves in the directory exactly the blocks whose bytes on disk
\* hash to their checksum, in their order; the file gets no shorter and no byte
\* of a block of the directory changes
RepairKeepsIntact ==
    [][ (last'.op = "repair" /\ last'.ok)
        => /\ metadata'.BlockInfo = SelectSeq(metadata.BlockInfo, OnDiskIntact)
           /\ Len(disk') >= Len(disk)
           /\ \A i \in 1..Len(metadata.BlockInfo) :
                 LET bi == metadata.BlockInfo[i]
                 IN \A j \in (bi.Offset + 1)..(bi.Offset + bi.Length) :
                       j <= Len(disk) => SameCells(<<disk'[j]>>, <<disk[j]>>) ]_vars

\* C28: while a write or a read of N columns runs, at most min(N, cpu_count)
\* column workers are in flight
BoundedWorkers ==
    (run.kind # "none" /\ ~run.returned)
    => Cardinality(InFlight(run)) <= Min({Len(run.fields), run.cpu})

\* C29: when a write or a read has returned, with success or with an error, no
\* column worker it started is still running
NoWorkerOutlives == run.returned => InFlight(run) = {}

\* The slots of the call whose worker stored an array
Stored == { i \in 1..Len(run.slots) : run.slots[i].out.arr # <<>> }
Failing == { i \in 1..Len(run.slots) : run.slots[i].out.err # NoErr }

\* C30: when a read has returned an error, every array a worker of the read
\* stored has been released once and no reference to it is left, and an error
\* of a worker that was returned is that of the failing column with the lowest
\* index; when a read has returned a batch, each array is in the batch and has
\* one reference
ReadReleases ==
    (run.kind \in {"read", "readcolumns"} /\ run.returned)
    => IF run.err # NoErr
       THEN /\ \A i \in Stored : run.slots[i].refs = 0 /\ run.slots[i].released = 1
            /\ Failing # {} => run.err = run.slots[Min(Failing)].out.err
       ELSE \A i \in 1..Len(run.slots) :
               /\ run.slots[i].refs = 1
               /\ run.slots[i].released = 1
               /\ run.record.cols[i] = run.slots[i].out.arr

\* C31: a write whose context was cancelled before it started or during its
\* parallel phase returns a cancellation error, rewrites no trailer and adds no
\* block to the directory
CancelledWriteAborts ==
    [][ (run.kind = "write" /\ run.done /\ ~run.returned /\ run'.returned)
        => /\ ~last'.ok
           /\ last'.err.kind = "context canceled"
           /\ trailerAt' = trailerAt
           /\ Len(disk') = Len(disk)
           /\ Len(metadata'.BlockInfo) = Len(metadata.BlockInfo) ]_vars

\* C32: on a handle the access log only grows and keeps its earlier entries
\* as they were; a successful write appends one entry "write" with details
\* "wrote N rows", a successful read appends one entry "read", and the
\* access count of Info is the number of entries
AuditAppendOnly ==
    [][ last'.op \notin {"create", "open"}
        => LET old == metadata.AccessLog
               new == metadata'.AccessLog
           IN /\ Len(new) >= Len(old)
              /\ SubSeq(new, 1, Len(old)) = old
              /\ (last'.op = "write" /\ last'.ok)
                    => new = Append(old, [Action |-> "write",
                                          Details |-> <<"wrote", LastWritten'.rows, "rows">>])
              /\ (last'.op \in {"read", "readcolumns"} /\ last'.ok)
                    => (Len(new) = Len(old) + 1 /\ new[Len(new)].Action = "read")
              /\ Info(metadata').AccessCount = Len(new) ]_vars

\* A read that followed two writes: the log holds two write entries and a read
\* entry, in that order
ThreeEntriesLogged ==
    /\ last.op = "read" /\ last.ok
    /\ Len(written) = 2
    /\ Len(metadata.AccessLog) = 3
    /\ metadata.AccessLog[1].Action = "write"
    /\ metadata.AccessLog[3].Action = "read"
    /\ Info(metadata).AccessCount = 3

\* C33: the key NewKey returns for a password is the key DeriveKey returns
\* for that password and the salt NewKey generated: the same key data, the
\* same scalar, the same point
NewKeyAgreesWithDeriveKey ==
    last.op = "newkey" => last.cols[1] = DerivedKey(last.pw, last.cols[1].Salt)

\* C34: in the result of a query with ORDER BY c ASC or DESC, rows with equal
\* values of c are in the order they have in the stored batch
StableOrderBy ==
    \A o \in Orders :
       (/\ Len(o) = 4
        /\ Queried(SelectFrom(<<Name("id")>>, <<>>, o, <<>>, <<>>))
        /\ last.ok)
       => LET ids == last.record.cols[1]
              col == Column(Table, o[3].s)
          IN \A r, t \in 1..Len(ids) :
                (r < t /\ col[ids[r].n] = col[ids[t].n]) => ids[r].n < ids[t].n

\* C35: a read and a write use the keys derived from the password given to
\* that call; a read with a password other than the creation password, on a
\* file written with the creation password, fails with the decryption error
\* whatever was read on the handle before
PasswordPerCall ==
    /\ last.op = "read" => reader.encryptors = Encryptors(metadata, last.pw)
    /\ last.op = "write" => writer.encryptors = Encryptors(metadata, last.pw)
    /\ (/\ last.op = "read"
        /\ written # <<>>
        /\ \A i \in 1..Len(written) : written[i].password = createPw
        /\ last.pw # createPw)
       => (~last.ok /\ last.err.kind = "failed to decrypt")

\* Every block of the directory is in the file and decrypts under the keys of
\* the creation password and the master salt
BlocksOfCreationPassword ==
    \A i \in 1..Len(metadata.BlockInfo) :
       LET bi == metadata.BlockInfo[i]
           got == ReadAt(disk, FALSE, bi.Offset, bi.Length)
       IN /\ ~got.err
          /\ bi.ColumnName \in Range(metadata.Schema)
          /\ Decrypt(Encryptors(metadata, createPw)[bi.ColumnName], got.bytes).err = "none"

\* C36: every block of the directory decrypts under the keys derived from the
\* creation password and the master salt, and a write called with another
\* password adds no block to the directory
DirectoryOfCreationPassword ==
    [][ /\ hst' # "none" => BlocksOfCreationPassword'
        /\ (last'.op = "write" /\ last'.pw # createPw)
              => Len(metadata'.BlockInfo) = Len(metadata.BlockInfo) ]_vars

\* C37: a read never fails on columns of different lengths, and a successful
\* read returns the batch of one write: all its columns have the row count of
\* the batch and are the columns of that write
BatchCoherence ==
    last.op = "read"
    => /\ last.err.kind # "panic"
       /\ last.ok
             => /\ \A c \in 1..Len(last.record.cols) :
                      Len(last.record.cols[c]) = last.record.rows
                /\ \E i \in 1..Len(written) : last.record = written[i].record

\* The byte range of a directory entry, and of the trailer the header points to
BlockEnd(bi) == bi.Offset + bi.Length
TrailerStart == FromLittleEndian(SubSeq(disk, MetadataOffsetPos + 1, HeaderEnd))
TrailerEnd == TrailerStart + 4 + FromLittleEndian(SubSeq(disk, TrailerStart + 1, TrailerStart + 4))

\* C38: the blocks of the directory lie after the header and within the file,
\* in directory order at increasing offsets and without overlap, and none
\* overlaps the trailer that the header's metadata offset points to
BlocksDisjoint ==
    hst # "none"
    => LET dir == metadata.BlockInfo
       IN /\ \A i \in 1..Len(dir) :
                dir[i].Offset >= HeaderEnd /\ BlockEnd(dir[i]) <= Len(disk)
          /\ \A i, j \in 1..Len(dir) : i < j => BlockEnd(dir[i]) <= dir[j].Offset
          /\ \A i \in 1..Len(dir) :
                BlockEnd(dir[i]) <= TrailerStart \/ TrailerEnd <= dir[i].Offset

\* C39: the batch given to Write has the reference count it had before the
\* call when Write has returned, with success or with an error; the caller's
\* Release then brings it to zero, and it is never negative
WriteKeepsBatch ==
    run.kind = "write"
    => /\ run.batch >= 0
       /\ (run.returned /\ ~run.freed) => run.batch = 1
       /\ run.freed => run.batch = 0

\* C40: the parallel phase of a write always ends: the slots taken of the
\* semaphore are those of the workers in flight and never more than the pool
\* size, and every write that was entered returns with every worker started
\* and finished and every slot given back
WritePoolTerminates ==
    /\ [](run.kind = "write"
             => /\ run.sem = Cardinality(InFlight(run))
                /\ run.sem <= run.cpu)
    /\ (run.kind = "write")
          ~> (/\ run.returned
              /\ run.next = Len(run.fields)
              /\ \A i \in 1..Len(run.slots) : run.slots[i].pc = "done"
              /\ run.sem = 0)

\* A write of two columns returned on a machine of one processor
TwoColumnsOneCpu ==
    /\ run.kind = "write" /\ run.returned
    /\ run.cpu = 1 /\ Len(run.fields) = 2
    /\ run.sem = 0
    /\ \A i \in 1..2 : run.slots[i].pc = "done"

====
